---- MODULE Spec2Model ----
(***************************************************************************)
(* Bedrock deterministic block-execution engine.                           *)
(*                                                                         *)
(* The model follows one call of the block executor against either of the  *)
(* two host implementations of the repository:                             *)
(*   mode = "mock"    BlockExecutor::execute_block on a fresh MockHost     *)
(*   mode = "sandbox" Sandbox::execute_block: HostState behind the linker, *)
(*                    the guest running the same executor on a             *)
(*                    WasmHostBridge                                       *)
(* Bytes are digits in base ByteBase; a u64 is U64_BYTES little-endian     *)
(* bytes, so U64_MAX = ByteBase^8 - 1.  State keys are kept as numbers     *)
(* that sort like the byte strings they stand for; hashes are kept as      *)
(* their preimages (a collision-free BLAKE3).                              *)
(***************************************************************************)
EXTENDS Integers, Sequences, FiniteSets, TLC

\* ------------------------------------------------------------------------
\* Bounds of the model
\* ------------------------------------------------------------------------
ByteBase == 2

MaxTxs == 2

MaxReruns == 2

MaxHostCalls == 2

MaxCharges == 3

MaxOverlayOps == 4

MaxLogCalls == 3

MaxMemOps == 3

MaxImportCalls == 2

MaxPairCalls == 2

MaxTreeOps == 4

MaxCodecCalls == 2

MaxDecodeCalls == 2

MaxAliasOps == 3

\* ------------------------------------------------------------------------
\* Program constants
\* ------------------------------------------------------------------------
API_VERSION == 1

MAX_KEY_LEN == 256

MAX_VALUE_LEN == 65536

G_STATE_GET == 200

G_STATE_SET == 500

G_STATE_DEL == 300

G_PER_BYTE == 3

G_EMIT_EVENT == 100

G_VERIFY_ED25519 == 2000

G_GET_CONTEXT == 50

G_HOST_FREE == 5

U64_BYTES == 8

U32_BYTES == 4

ADDRESS_LEN == 32

MIN_TRANSFER_TX_SIZE == 32 + 8 + 1 + 32 + 8 + 32 + 64

PAYLOAD_TRANSFER == 1

BALANCE_PREFIX_LEN == 5

BALANCE_SUFFIX_LEN == 8

NONCE_SUFFIX_LEN == 6

LEAF_PREFIX == 0

INTERNAL_PREFIX == 1

DEFAULT_MAX_EVENTS == 1024

DEFAULT_MAX_WRITE_BYTES == 4 * 1024 * 1024

DEFAULT_MAX_LOG_LINES == 256

DEFAULT_MAX_LOG_LINE_LEN == 1024

G_LOG == 10

DEFAULT_GAS_LIMIT == 10000000

\* Error codes (ErrorCode, repr i32)
ERR_OK == 0

ERR_BAD_POINTER == 1

ERR_INVALID_ENCODING == 2

ERR_KEY_TOO_LARGE == 3

ERR_VALUE_TOO_LARGE == 4

ERR_WRITE_LIMIT == 5

ERR_EVENT_LIMIT == 6

ERR_OUT_OF_GAS == 7

ERR_SIG_INVALID == 8

ERR_CRYPTO_FAILED == 9

ERR_INTERNAL == 10

\* ------------------------------------------------------------------------
\* Integers and bytes
\* ------------------------------------------------------------------------
RECURSIVE Pow(_, _)
Pow(b, e) == IF e = 0 THEN 1 ELSE b * Pow(b, e - 1)

U64_MAX == Pow(ByteBase, U64_BYTES) - 1

U32_MAX == Pow(ByteBase, U32_BYTES) - 1

u64_to_le_bytes(v) == [i \in 1..U64_BYTES |-> (v \div Pow(ByteBase, i - 1)) % ByteBase]

RECURSIVE LeValue(_, _)
LeValue(bytes, i) ==
    IF i > U64_BYTES THEN 0
    ELSE bytes[i] * Pow(ByteBase, i - 1) + LeValue(bytes, i + 1)

\* None when fewer than 8 bytes are given, else the value of the first 8
u64_from_le_bytes(bytes) ==
    IF Len(bytes) < U64_BYTES THEN [some |-> FALSE, v |-> 0]
    ELSE [some |-> TRUE, v |-> LeValue(bytes, 1)]

\* ------------------------------------------------------------------------
\* Accounts and state keys
\* ------------------------------------------------------------------------
Accounts == {1, 2}

\* "acct/" || addr || "/balance" and "acct/" || addr || "/nonce": for one
\* address the balance key sorts first, and keys of a smaller address sort
\* before keys of a larger one.
balance_key(addr) == 2 * addr

nonce_key(addr) == 2 * addr + 1

IsBalanceKey(k) == k % 2 = 0

\* Keys outside the account namespace, sorting after it: one of MAX_KEY_LEN
\* bytes and one a byte longer
LongKey == 100

TooLongKey == 101

KeyLen(k) ==
    IF k = LongKey THEN MAX_KEY_LEN
    ELSE IF k = TooLongKey THEN MAX_KEY_LEN + 1
    ELSE IF IsBalanceKey(k) THEN BALANCE_PREFIX_LEN + ADDRESS_LEN + BALANCE_SUFFIX_LEN
    ELSE BALANCE_PREFIX_LEN + ADDRESS_LEN + NONCE_SUFFIX_LEN

Keys == {balance_key(a) : a \in Accounts} \cup {nonce_key(a) : a \in Accounts}

\* ------------------------------------------------------------------------
\* Gas schedule and gas meter
\* ------------------------------------------------------------------------
gas_cost_state_get(key_len) == G_STATE_GET + key_len * G_PER_BYTE

gas_cost_state_set(key_len, val_len) == G_STATE_SET + (key_len + val_len) * G_PER_BYTE

gas_cost_state_delete(key_len) == G_STATE_DEL + key_len * G_PER_BYTE

gas_cost_emit_event(event_len) == G_EMIT_EVENT + event_len * G_PER_BYTE

GasMeterNew(limit) == [limit |-> limit, consumed |-> 0]

\* GasMeter::consume / HostGasMeter::charge: refused charges leave the
\* meter as it was.  (checked_add cannot overflow for the limits drawn.)
MeterCharge(m, amount) ==
    IF m.consumed + amount <= m.limit
    THEN [ok |-> TRUE, m |-> [m EXCEPT !.consumed = m.consumed + amount]]
    ELSE [ok |-> FALSE, m |-> m]

is_exhausted(m) == m.consumed >= m.limit

\* ------------------------------------------------------------------------
\* State overlay
\* ------------------------------------------------------------------------
EmptyMap == [k \in {} |-> 0]

OverlayNew == [writes |-> EmptyMap, total_write_bytes |-> 0]

SetEntry(value) == [del |-> FALSE, val |-> value]

Tombstone == [del |-> TRUE, val |-> <<>>]

EntryBytes(k, e) == KeyLen(k) + (IF e.del THEN 0 ELSE Len(e.val))

SatSub(a, b) == IF a >= b THEN a - b ELSE 0

MapPut(f, k, e) == [x \in (DOMAIN f) \cup {k} |-> IF x = k THEN e ELSE f[x]]

\* Variant of OverlaySet: the entry replaced is not subtracted
OverlaySet_NoSubtract(ov, k, value) ==
    [writes |-> MapPut(ov.writes, k, SetEntry(value)),
     total_write_bytes |-> ov.total_write_bytes + KeyLen(k) + Len(value)]

OverlaySet(ov, k, value) ==
    LET base == IF k \in DOMAIN ov.writes
                THEN SatSub(ov.total_write_bytes, EntryBytes(k, ov.writes[k]))
                ELSE ov.total_write_bytes
    IN [writes |-> MapPut(ov.writes, k, SetEntry(value)),
        total_write_bytes |-> base + KeyLen(k) + Len(value)]

OverlayDelete(ov, k) ==
    LET base == IF k \in DOMAIN ov.writes
                THEN SatSub(ov.total_write_bytes, EntryBytes(k, ov.writes[k]))
                ELSE ov.total_write_bytes
    IN [writes |-> MapPut(ov.writes, k, Tombstone),
        total_write_bytes |-> base + KeyLen(k)]

\* StateOverlay::get: Found(v) | Deleted | NotInOverlay
OverlayGet(ov, k) ==
    IF k \notin DOMAIN ov.writes THEN [tag |-> "NotInOverlay", val |-> <<>>]
    ELSE IF ov.writes[k].del THEN [tag |-> "Deleted", val |-> <<>>]
    ELSE [tag |-> "Found", val |-> ov.writes[k].val]

\* Option<Vec<u8>>
None == [some |-> FALSE, val |-> <<>>]

Some(v) == [some |-> TRUE, val |-> v]

StoreGet(store, k) == IF k \in DOMAIN store THEN Some(store[k]) ELSE None

\* ------------------------------------------------------------------------
\* Merkle commitment (hashes are their preimages)
\* ------------------------------------------------------------------------
ZERO_HASH == <<>>

hash_leaf(k, value) == <<LEAF_PREFIX, KeyLen(k), k>> \o value

hash_internal(left, right) == <<INTERNAL_PREFIX>> \o left \o right

RECURSIVE NextLevel(_)
NextLevel(level) ==
    IF Len(level) = 0 THEN <<>>
    ELSE IF Len(level) = 1 THEN <<level[1]>>
    ELSE <<hash_internal(level[1], level[2])>> \o NextLevel(SubSeq(level, 3, Len(level)))

RECURSIVE compute_root_from_leaves(_)
compute_root_from_leaves(leaves) ==
    IF Len(leaves) = 0 THEN ZERO_HASH
    ELSE IF Len(leaves) = 1 THEN leaves[1]
    ELSE compute_root_from_leaves(NextLevel(leaves))

\* The keys of a map in ascending order (BTreeMap iteration)
RECURSIVE SortedKeys(_)
SortedKeys(ks) ==
    IF ks = {} THEN <<>>
    ELSE LET m == CHOOSE x \in ks : \A y \in ks : x <= y
         IN <<m>> \o SortedKeys(ks \ {m})

\* SparseMerkleTree::new + apply_writes: the entries of a tree built from
\* the overlay writes alone (tombstones remove, sets insert)
apply_writes(writes) ==
    LET live == {k \in DOMAIN writes : ~writes[k].del}
    IN [k \in live |-> writes[k].val]

SmtRoot(entries) ==
    LET ks == SortedKeys(DOMAIN entries)
    IN compute_root_from_leaves([i \in 1..Len(ks) |-> hash_leaf(ks[i], entries[ks[i]])])

\* Variant of compute_state_root: the tree is built for an empty overlay too
compute_state_root_AlwaysTree(prev_state_root, overlay) ==
    SmtRoot(apply_writes(overlay.writes))

compute_state_root(prev_state_root, overlay) ==
    IF DOMAIN overlay.writes = {} THEN prev_state_root
    ELSE SmtRoot(apply_writes(overlay.writes))

\* ------------------------------------------------------------------------
\* The two hosts
\*   e.host  what the executor sees through HostInterface: the MockHost, or
\*           the guest-side WasmHostBridge (own gas meter, mirrored overlay
\*           and events)
\*   e.hs    the sandbox HostState behind the linker (unused by MockHost)
\* ------------------------------------------------------------------------
ExecutionContext_from_request(req) ==
    [gas_limit |-> req.limits.gas_limit,
     max_events |-> req.limits.max_events,
     max_write_bytes |-> req.limits.max_write_bytes,
     api_version |-> req.api_version]

\* MockHost::new and WasmHostBridge::with_context
HostNew(context) ==
    [gas_meter |-> GasMeterNew(context.gas_limit),
     overlay |-> OverlayNew,
     events |-> <<>>,
     logs |-> <<>>,
     max_events |-> context.max_events,
     max_write_bytes |-> context.max_write_bytes]

\* HostState::new with ExecutionConfig::from_limits
HostStateNew(limits) ==
    [gas_meter |-> GasMeterNew(limits.gas_limit),
     overlay |-> OverlayNew,
     events |-> <<>>,
     event_count |-> 0,
     event_count_overflowed |-> FALSE,
     max_events |-> limits.max_events,
     max_write_bytes |-> limits.max_write_bytes,
     max_key_len |-> MAX_KEY_LEN,
     max_value_len |-> MAX_VALUE_LEN,
     logs |-> <<>>,
     max_log_lines |-> DEFAULT_MAX_LOG_LINES,
     max_log_line_len |-> DEFAULT_MAX_LOG_LINE_LEN]

NoLimits == [gas_limit |-> 0, max_events |-> 0, max_write_bytes |-> 0]

Ret(code, val, e) == [code |-> code, val |-> val, e |-> e]

\* register_host_free: the guest ignores the returned code
LinkerHostFree(e) ==
    [e EXCEPT !.hs.gas_meter = MeterCharge(e.hs.gas_meter, G_HOST_FREE).m]

\* HostState::state_get
HostState_state_get(hs, store, k) ==
    LET r == OverlayGet(hs.overlay, k)
    IN IF r.tag = "Found" THEN Some(r.val)
       ELSE IF r.tag = "Deleted" THEN None
       ELSE StoreGet(store, k)

\* MockHost::state_get
MockHost_state_get(e, k, r) ==
    IF KeyLen(k) > MAX_KEY_LEN THEN Ret(ERR_KEY_TOO_LARGE, None, e)
    ELSE IF r.tag = "Found" THEN Ret(ERR_OK, Some(r.val), e)
    ELSE IF r.tag = "Deleted" THEN Ret(ERR_OK, None, e)
    ELSE Ret(ERR_OK, StoreGet(e.store, k), e)

\* WasmHostBridge::state_get over register_state_get; c is the charge on
\* the host meter, v what HostState::state_get returned
Bridge_state_get(e, c, v) ==
    IF ~c.ok THEN Ret(ERR_OUT_OF_GAS, None, e)
    ELSE IF ~v.some \/ Len(v.val) = 0 THEN Ret(ERR_OK, None, [e EXCEPT !.hs.gas_meter = c.m])
    ELSE Ret(ERR_OK, v, LinkerHostFree([e EXCEPT !.hs.gas_meter = c.m]))

\* HostInterface::state_get
StateGet(e, k) ==
    IF e.mode = "mock" THEN MockHost_state_get(e, k, OverlayGet(e.host.overlay, k))
    ELSE Bridge_state_get(e, MeterCharge(e.hs.gas_meter, gas_cost_state_get(KeyLen(k))),
                          HostState_state_get(e.hs, e.store, k))

\* MockHost::state_set
MockHost_state_set(h, k, value) ==
    IF KeyLen(k) > MAX_KEY_LEN THEN [code |-> ERR_KEY_TOO_LARGE, h |-> h]
    ELSE IF Len(value) > MAX_VALUE_LEN THEN [code |-> ERR_VALUE_TOO_LARGE, h |-> h]
    ELSE IF h.overlay.total_write_bytes + KeyLen(k) + Len(value) > h.max_write_bytes
         THEN [code |-> ERR_WRITE_LIMIT, h |-> h]
    ELSE [code |-> ERR_OK, h |-> [h EXCEPT !.overlay = OverlaySet(h.overlay, k, value)]]

HostState_written(hs, ov) ==
    IF ov.total_write_bytes > hs.max_write_bytes
    THEN [code |-> ERR_WRITE_LIMIT, hs |-> [hs EXCEPT !.overlay = ov]]
    ELSE [code |-> ERR_OK, hs |-> [hs EXCEPT !.overlay = ov]]

\* HostState::state_set: the entry is written before the byte limit is checked
HostState_state_set(hs, k, value) ==
    IF KeyLen(k) > hs.max_key_len THEN [code |-> ERR_KEY_TOO_LARGE, hs |-> hs]
    ELSE IF Len(value) > hs.max_value_len THEN [code |-> ERR_VALUE_TOO_LARGE, hs |-> hs]
    ELSE IF KeyLen(k) = 0 THEN [code |-> ERR_KEY_TOO_LARGE, hs |-> hs]
    ELSE HostState_written(hs, OverlaySet(hs.overlay, k, value))

\* WasmHostBridge::state_set over register_state_set; c is the charge on
\* the host meter, r what HostState::state_set returned.  The bridge mirrors
\* the write only when the host returned 0.
Bridge_state_set(e, k, value, c, r) ==
    IF ~c.ok THEN Ret(ERR_OUT_OF_GAS, None, e)
    ELSE IF r.code # ERR_OK THEN Ret(r.code, None, [e EXCEPT !.hs = r.hs])
    ELSE Ret(ERR_OK, None,
             [e EXCEPT !.hs = r.hs, !.host.overlay = OverlaySet(e.host.overlay, k, value)])

Mock_state_set(e, r) == Ret(r.code, None, [e EXCEPT !.host = r.h])

Charged(hs0, c) == [hs0 EXCEPT !.gas_meter = c.m]

\* HostInterface::state_set
StateSet(e, k, value) ==
    IF e.mode = "mock" THEN Mock_state_set(e, MockHost_state_set(e.host, k, value))
    ELSE Bridge_state_set(e, k, value,
             MeterCharge(e.hs.gas_meter, gas_cost_state_set(KeyLen(k), Len(value))),
             HostState_state_set(
                 Charged(e.hs, MeterCharge(e.hs.gas_meter,
                                           gas_cost_state_set(KeyLen(k), Len(value)))),
                 k, value))

\* MockHost::state_delete
MockHost_state_delete(h, k) ==
    IF KeyLen(k) > MAX_KEY_LEN THEN [code |-> ERR_KEY_TOO_LARGE, h |-> h]
    ELSE [code |-> ERR_OK, h |-> [h EXCEPT !.overlay = OverlayDelete(h.overlay, k)]]

\* HostState::state_delete
HostState_state_delete(hs, k) ==
    IF KeyLen(k) > hs.max_key_len THEN [code |-> ERR_KEY_TOO_LARGE, hs |-> hs]
    ELSE IF KeyLen(k) = 0 THEN [code |-> ERR_KEY_TOO_LARGE, hs |-> hs]
    ELSE [code |-> ERR_OK, hs |-> [hs EXCEPT !.overlay = OverlayDelete(hs.overlay, k)]]

\* WasmHostBridge::state_delete over register_state_delete
Bridge_state_delete(e, k, c, r) ==
    IF ~c.ok THEN Ret(ERR_OUT_OF_GAS, None, e)
    ELSE IF r.code # ERR_OK THEN Ret(r.code, None, [e EXCEPT !.hs = r.hs])
    ELSE Ret(ERR_OK, None,
             [e EXCEPT !.hs = r.hs, !.host.overlay = OverlayDelete(e.host.overlay, k)])

\* HostInterface::state_delete
StateDelete(e, k) ==
    IF e.mode = "mock" THEN Mock_state_set(e, MockHost_state_delete(e.host, k))
    ELSE Bridge_state_delete(e, k,
             MeterCharge(e.hs.gas_meter, gas_cost_state_delete(KeyLen(k))),
             HostState_state_delete(
                 Charged(e.hs, MeterCharge(e.hs.gas_meter, gas_cost_state_delete(KeyLen(k)))),
                 k))

\* MockHost::commit: the overlay is drained into the committed state
MockHost_commit(store, overlay) ==
    [k \in ((DOMAIN store) \ (DOMAIN overlay.writes))
             \cup {w \in DOMAIN overlay.writes : ~overlay.writes[w].del} |->
        IF k \in DOMAIN overlay.writes THEN overlay.writes[k].val ELSE store[k]]

\* encode_single_event of a transfer event: tx_index, "transfer", three
\* attributes (sender, recipient: 32 bytes; amount: 8 bytes)
EventEncodedLen ==
    4 + (4 + 8) + 4 + ((4 + 6) + (4 + ADDRESS_LEN)) + ((4 + 9) + (4 + ADDRESS_LEN))
      + ((4 + 6) + (4 + U64_BYTES))

\* HostState::add_event after `self.event_count += 1`
HostState_counted(hs1, event) ==
    IF hs1.event_count > hs1.max_events
    THEN [code |-> ERR_EVENT_LIMIT, hs |-> hs1]
    ELSE [code |-> ERR_OK, hs |-> [hs1 EXCEPT !.events = Append(hs1.events, event)]]

\* HostState::add_event: the u32 counter moves before the limit is checked,
\* also for rejected events.  At u32::MAX the increment overflows: it wraps
\* to 0 in a build without overflow checks and panics in a build with them
\* (event_count_overflowed records that the increment overflowed).
HostState_add_event(hs, event) ==
    HostState_counted(
        [hs EXCEPT !.event_count = (hs.event_count + 1) % (U32_MAX + 1),
                   !.event_count_overflowed = @ \/ hs.event_count = U32_MAX],
        event)

\* WasmHostBridge::emit_event over register_emit_event
Bridge_emit_event(e, event, c, r) ==
    IF ~c.ok THEN Ret(ERR_OUT_OF_GAS, None, e)
    ELSE IF r.code # ERR_OK THEN Ret(r.code, None, [e EXCEPT !.hs = r.hs])
    ELSE Ret(ERR_OK, None,
             [e EXCEPT !.hs = r.hs, !.host.events = Append(e.host.events, event)])

\* HostInterface::emit_event
EmitEvent(e, event) ==
    IF e.mode = "mock" THEN
        IF Len(e.host.events) >= e.host.max_events THEN Ret(ERR_EVENT_LIMIT, None, e)
        ELSE Ret(ERR_OK, None, [e EXCEPT !.host.events = Append(e.host.events, event)])
    ELSE Bridge_emit_event(e, event,
             MeterCharge(e.hs.gas_meter, gas_cost_emit_event(EventEncodedLen)),
             HostState_add_event(
                 Charged(e.hs, MeterCharge(e.hs.gas_meter,
                                           gas_cost_emit_event(EventEncodedLen))),
                 event))

\* A signature verifies under public_key exactly when that key made it over
\* the signed bytes (signer 0: the signature bytes are garbage).
SignatureValid(tx) == tx.signer = tx.public_key

\* WasmHostBridge::verify_ed25519 over register_verify_ed25519
Bridge_verify_ed25519(e, tx, c) ==
    IF ~c.ok THEN Ret(ERR_OUT_OF_GAS, FALSE, e)
    ELSE Ret(ERR_OK, SignatureValid(tx), [e EXCEPT !.hs.gas_meter = c.m])

\* HostInterface::verify_ed25519; val is the returned bool
VerifyEd25519(e, tx) ==
    IF e.mode = "mock" THEN Ret(ERR_OK, SignatureValid(tx), e)
    ELSE Bridge_verify_ed25519(e, tx, MeterCharge(e.hs.gas_meter, G_VERIFY_ED25519))

Consumed(e, c) == [ok |-> c.ok, e |-> [e EXCEPT !.host.gas_meter = c.m]]

\* host.gas_meter_mut().consume(amount)
Consume(e, amount) == Consumed(e, MeterCharge(e.host.gas_meter, amount))

\* ------------------------------------------------------------------------
\* Transactions
\*   A raw transaction is kept by the fields of its wire layout plus its
\*   byte length; signer is the key that produced the signature bytes.
\* ------------------------------------------------------------------------
RawTx(len, ptype, sender, nonce, to, amount, pk, signer) ==
    [len |-> len, payload_type |-> ptype, sender |-> sender, nonce |-> nonce,
     to |-> to, amount |-> amount, public_key |-> pk, signer |-> signer]

\* Err(SerializationError) for short input or an unknown payload type
decode_transaction(raw) ==
    IF raw.len < MIN_TRANSFER_TX_SIZE THEN [ok |-> FALSE, tx |-> raw]
    ELSE IF raw.payload_type # PAYLOAD_TRANSFER THEN [ok |-> FALSE, tx |-> raw]
    ELSE [ok |-> TRUE, tx |-> raw]

ErrHost(code) == [kind |-> "HostError", code |-> code]

ErrOutOfGas == [kind |-> "OutOfGas", code |-> ERR_OUT_OF_GAS]

ErrInvalidBlock == [kind |-> "InvalidBlock", code |-> 1]

ErrSerialization == [kind |-> "SerializationError", code |-> ERR_INVALID_ENCODING]

NoErr == [kind |-> "None", code |-> ERR_OK]

\* The u64 of a state_get result: 0 when the key is absent
DecodeU64(r) ==
    IF r.code # ERR_OK THEN [ok |-> FALSE, err |-> ErrHost(r.code), v |-> 0, e |-> r.e]
    ELSE IF ~r.val.some THEN [ok |-> TRUE, err |-> NoErr, v |-> 0, e |-> r.e]
    ELSE IF ~u64_from_le_bytes(r.val.val).some
         THEN [ok |-> FALSE, err |-> ErrSerialization, v |-> 0, e |-> r.e]
    ELSE [ok |-> TRUE, err |-> NoErr, v |-> u64_from_le_bytes(r.val.val).v, e |-> r.e]

ReadU64(e, k) == DecodeU64(StateGet(e, k))

read_balance(e, addr) == ReadU64(e, balance_key(addr))

read_nonce(e, addr) == ReadU64(e, nonce_key(addr))

WriteResult(r) == [ok |-> r.code = ERR_OK, err |-> ErrHost(r.code), e |-> r.e]

WriteU64(e, k, v) == WriteResult(StateSet(e, k, u64_to_le_bytes(v)))

write_balance(e, addr, v) == WriteU64(e, balance_key(addr), v)

write_nonce(e, addr, v) == WriteU64(e, nonce_key(addr), v)

\* consume(gas_cost_state_get(key.len()))?; then the read
ReadAfter(g, k) ==
    IF ~g.ok THEN [ok |-> FALSE, err |-> ErrOutOfGas, v |-> 0, e |-> g.e]
    ELSE ReadU64(g.e, k)

ChargedRead(e, k) == ReadAfter(Consume(e, gas_cost_state_get(KeyLen(k))), k)

\* consume(gas_cost_state_set(key.len(), 8))?; then the write
WriteAfter(g, k, v) ==
    IF ~g.ok THEN [ok |-> FALSE, err |-> ErrOutOfGas, e |-> g.e]
    ELSE WriteU64(g.e, k, v)

ChargedWrite(e, k, v) == WriteAfter(Consume(e, gas_cost_state_set(KeyLen(k), U64_BYTES)), k, v)

TransferEvent(tx_index, sender, to, amount) ==
    [tx_index |-> tx_index, event_type |-> "transfer", sender |-> sender,
     recipient |-> to, amount |-> u64_to_le_bytes(amount)]

TxFail(err, e) == [ok |-> FALSE, err |-> err, events |-> <<>>, e |-> e, panic |-> FALSE]

TxOk(events, e) == [ok |-> TRUE, err |-> NoErr, events |-> events, e |-> e, panic |-> FALSE]

TxPanic(e) == [ok |-> FALSE, err |-> NoErr, events |-> <<>>, e |-> e, panic |-> TRUE]

\* execute_transfer, from the last step back to the first; each operator
\* takes the result of the step before it.
\*   w2: the recipient balance was written
transfer_recipient_written(tx_index, sender, to, amount, w2) ==
    IF ~w2.ok THEN TxFail(w2.err, w2.e)
    ELSE TxOk(<<TransferEvent(tx_index, sender, to, amount)>>, w2.e)

\*   w1: the sender balance was written
transfer_sender_written(tx_index, sender, to, amount, new_to_balance, w1) ==
    IF ~w1.ok THEN TxFail(w1.err, w1.e)
    ELSE transfer_recipient_written(tx_index, sender, to, amount,
             ChargedWrite(w1.e, balance_key(to), new_to_balance))

\* Variant of transfer_recipient_read: the recipient balance is added with
\* wrapping u64 arithmetic
transfer_recipient_read_Wrapping(tx_index, sender, to, amount, sender_balance, r2) ==
    IF ~r2.ok THEN TxFail(r2.err, r2.e)
    ELSE transfer_sender_written(tx_index, sender, to, amount,
             (r2.v + amount) % (U64_MAX + 1),
             ChargedWrite(r2.e, balance_key(sender), sender_balance - amount))

\*   r2: the recipient balance was read; checked_add
transfer_recipient_read(tx_index, sender, to, amount, sender_balance, r2) ==
    IF ~r2.ok THEN TxFail(r2.err, r2.e)
    ELSE IF r2.v + amount > U64_MAX THEN TxFail(ErrInvalidBlock, r2.e)
    ELSE transfer_sender_written(tx_index, sender, to, amount, r2.v + amount,
             ChargedWrite(r2.e, balance_key(sender), sender_balance - amount))

\*   r1: the sender balance was read
transfer_sender_read(tx_index, sender, to, amount, r1) ==
    IF ~r1.ok THEN TxFail(r1.err, r1.e)
    ELSE IF r1.v < amount THEN TxFail(ErrInvalidBlock, r1.e)
    ELSE transfer_recipient_read(tx_index, sender, to, amount, r1.v,
             ChargedRead(r1.e, balance_key(to)))

execute_transfer(tx_index, sender, to, amount, e0) ==
    transfer_sender_read(tx_index, sender, to, amount, ChargedRead(e0, balance_key(sender)))

\* process_transaction_inner, from the last step back to the first.
\*   w: the nonce was written
inner_nonce_written(events, w) ==
    IF ~w.ok THEN TxFail(w.err, w.e) ELSE TxOk(events, w.e)

\*   g: the nonce write was charged.  `current_nonce + 1` is a plain u64
\*   addition: at u64::MAX it panics in a build with overflow checks and
\*   wraps to 0 in a build without.
inner_nonce_charged(tx, checks, current_nonce, events, g) ==
    IF ~g.ok THEN TxFail(ErrOutOfGas, g.e)
    ELSE IF current_nonce + 1 > U64_MAX /\ checks THEN TxPanic(g.e)
    ELSE inner_nonce_written(events,
             write_nonce(g.e, tx.sender, (current_nonce + 1) % (U64_MAX + 1)))

\*   x: the payload was executed
inner_transferred(tx, checks, current_nonce, x) ==
    IF ~x.ok THEN x
    ELSE inner_nonce_charged(tx, checks, current_nonce, x.events,
             Consume(x.e, gas_cost_state_set(KeyLen(nonce_key(tx.sender)), U64_BYTES)))

\*   n: the nonce was read
inner_nonce_read(tx_index, tx, checks, n) ==
    IF ~n.ok THEN TxFail(n.err, n.e)
    ELSE IF tx.nonce # n.v THEN TxFail(ErrInvalidBlock, n.e)
    ELSE inner_transferred(tx, checks, n.v,
             execute_transfer(tx_index, tx.sender, tx.to, tx.amount, n.e))

\*   v: verify_ed25519 returned
inner_verified(tx_index, tx, checks, v) ==
    IF v.code # ERR_OK THEN TxFail(ErrHost(v.code), v.e)
    ELSE IF ~v.val THEN TxFail(ErrHost(ERR_SIG_INVALID), v.e)
    ELSE inner_nonce_read(tx_index, tx, checks, ChargedRead(v.e, nonce_key(tx.sender)))

\*   g: the verification was charged
inner_verify_charged(tx_index, tx, checks, g) ==
    IF ~g.ok THEN TxFail(ErrOutOfGas, g.e)
    ELSE inner_verified(tx_index, tx, checks, VerifyEd25519(g.e, tx))

process_transaction_inner(tx_index, tx, e0, checks) ==
    inner_verify_charged(tx_index, tx, checks, Consume(e0, G_VERIFY_ED25519))

RECURSIVE EmitAll(_, _, _)
EmitAll(e, events, i) ==
    IF i > Len(events) THEN e ELSE EmitAll(EmitEvent(e, events[i]).e, events, i + 1)

\* Variant of Emitted: a rejected event fails the transaction
Emitted_Propagates(r) ==
    IF r.ok /\ EmitEvent(r.e, r.events[1]).code # ERR_OK
    THEN TxFail(ErrHost(EmitEvent(r.e, r.events[1]).code), EmitEvent(r.e, r.events[1]).e)
    ELSE IF r.ok THEN [r EXCEPT !.e = EmitAll(r.e, r.events, 1)] ELSE r

\* The events of a successful transaction are emitted, failures ignored
Emitted(r) == IF r.ok THEN [r EXCEPT !.e = EmitAll(r.e, r.events, 1)] ELSE r

\* ExecError -> Receipt.result_code
ResultCode(err) ==
    IF err.kind = "HostError" THEN err.code
    ELSE IF err.kind = "OutOfGas" THEN ERR_OUT_OF_GAS
    ELSE IF err.kind = "InvalidBlock" THEN 1
    ELSE IF err.kind = "SerializationError" THEN ERR_INVALID_ENCODING
    ELSE ERR_INTERNAL

Receipt(tx_index, success, gas_used, result_code) ==
    [tx_index |-> tx_index, success |-> success, gas_used |-> gas_used,
     result_code |-> result_code]

\* Variant of ReceiptOf: a failed receipt reports no gas
ReceiptOf_FreeFailure(tx_index, gas_before, r) ==
    [panic |-> r.panic,
     e |-> r.e,
     receipt |-> IF r.ok
                 THEN Receipt(tx_index, TRUE, r.e.host.gas_meter.consumed - gas_before, ERR_OK)
                 ELSE Receipt(tx_index, FALSE, 0, ResultCode(r.err))]

\* The receipt of a processed transaction
ReceiptOf(tx_index, gas_before, r) ==
    [panic |-> r.panic,
     e |-> r.e,
     receipt |-> IF r.ok
                 THEN Receipt(tx_index, TRUE, r.e.host.gas_meter.consumed - gas_before, ERR_OK)
                 ELSE Receipt(tx_index, FALSE, r.e.host.gas_meter.consumed - gas_before,
                              ResultCode(r.err))]

process_transaction(tx_index, tx, e0, checks) ==
    ReceiptOf(tx_index, e0.host.gas_meter.consumed,
              Emitted(process_transaction_inner(tx_index, tx, e0, checks)))

\* ------------------------------------------------------------------------
\* Request validation
\* ------------------------------------------------------------------------
validate_api_version(req) == req.api_version = API_VERSION

\* Variant of validate_block_fields: a zero gas limit is accepted
validate_block_fields_AnyGas(req) ==
    /\ req.block_height # 0
    /\ req.chain_id_len # 0

validate_block_fields(req) ==
    /\ req.block_height # 0
    /\ req.chain_id_len # 0
    /\ req.limits.gas_limit # 0

validate_request(req) == validate_api_version(req) /\ validate_block_fields(req)

Response(api_version, status, root, gas_used, rcpts, evts) ==
    [api_version |-> api_version, status |-> status, new_state_root |-> root,
     gas_used |-> gas_used, receipts |-> rcpts, events |-> evts, logs |-> <<>>]

\* ExecutionResponse::failure
ResponseFailure(api_version, status, prev_state_root) ==
    Response(api_version, status, prev_state_root, 0, <<>>, <<>>)

\* ------------------------------------------------------------------------
\* Response wire format (sandbox return path)
\* ------------------------------------------------------------------------
\* ExecutionStatus as u8
StatusByte(status) ==
    IF status = "Ok" THEN 0
    ELSE IF status = "InvalidBlock" THEN 1
    ELSE IF status = "ExecutionError" THEN 2
    ELSE 3

\* ExecutionStatus::from_u8
StatusFromByte(b) ==
    IF b = 0 THEN "Ok"
    ELSE IF b = 1 THEN "InvalidBlock"
    ELSE IF b = 2 THEN "ExecutionError"
    ELSE "OutOfGas"

encode_receipt(r) == <<r.tx_index, IF r.success THEN 1 ELSE 0, r.gas_used, r.result_code>>

decode_receipt(w) == Receipt(w[1], w[2] = 1, w[3], w[4])

encode_execution_response(resp) ==
    <<resp.api_version, StatusByte(resp.status), resp.new_state_root, resp.gas_used,
      [i \in 1..Len(resp.receipts) |-> encode_receipt(resp.receipts[i])],
      resp.events, resp.logs>>

decode_execution_response(w) ==
    [api_version |-> w[1], status |-> StatusFromByte(w[2]), new_state_root |-> w[3],
     gas_used |-> w[4],
     receipts |-> [i \in 1..Len(w[5]) |-> decode_receipt(w[5][i])],
     events |-> w[6], logs |-> w[7]]

\* ------------------------------------------------------------------------
\* Inputs
\* ------------------------------------------------------------------------
\* A transfer signed by its sender
Transfer(sender, nonce, to, amount) ==
    RawTx(MIN_TRANSFER_TX_SIZE, PAYLOAD_TRANSFER, sender, nonce, to, amount, sender, sender)

\* A transaction one byte short of a transfer
ShortTx == RawTx(MIN_TRANSFER_TX_SIZE - 1, PAYLOAD_TRANSFER, 1, 0, 2, 1, 1, 1)

\* Transfers of accounts 1 and 2 (to the other account, to oneself, of more
\* than the balance, with later nonces), a garbage signature, a signature
\* by a key other than the sender's, a short input, an unknown payload type
Txs ==
    { Transfer(1, 0, 2, 1),
      Transfer(1, 0, 2, U64_MAX),
      Transfer(1, 0, 1, 1),
      Transfer(1, 1, 2, 1),
      Transfer(1, U64_MAX, 2, 1),
      Transfer(2, 0, 1, 1),
      RawTx(MIN_TRANSFER_TX_SIZE, PAYLOAD_TRANSFER, 1, 0, 2, 1, 1, 0),
      RawTx(MIN_TRANSFER_TX_SIZE, PAYLOAD_TRANSFER, 1, 0, 2, 1, 2, 2),
      ShortTx,
      RawTx(MIN_TRANSFER_TX_SIZE, PAYLOAD_TRANSFER + 1, 1, 0, 2, 1, 1, 1) }

BlocksUpTo(n) == UNION {[1..m -> Txs] : m \in 0..n}

\* Blocks one transaction longer, over a valid transfer, its successor and
\* an undecodable transaction
CoreTxs == {Transfer(1, 0, 2, 1), Transfer(1, 1, 2, 1), ShortTx}

Blocks == BlocksUpTo(MaxTxs) \cup [1..(MaxTxs + 1) -> CoreTxs]

\* Committed stores
Stores ==
    { balance_key(1) :> u64_to_le_bytes(3),
      balance_key(1) :> u64_to_le_bytes(3) @@ balance_key(2) :> u64_to_le_bytes(U64_MAX),
      balance_key(1) :> u64_to_le_bytes(U64_MAX) @@ nonce_key(1) :> u64_to_le_bytes(U64_MAX),
      balance_key(1) :> u64_to_le_bytes(3) @@ nonce_key(2) :> u64_to_le_bytes(1),
      EmptyMap }

Limits(gas, events, bytes) ==
    [gas_limit |-> gas, max_events |-> events, max_write_bytes |-> bytes]

\* What the executor charges for one successful transfer
TransferGas ==
    G_VERIFY_ED25519
    + gas_cost_state_get(KeyLen(nonce_key(1)))
    + 2 * gas_cost_state_get(KeyLen(balance_key(1)))
    + 2 * gas_cost_state_set(KeyLen(balance_key(1)), U64_BYTES)
    + gas_cost_state_set(KeyLen(nonce_key(1)), U64_BYTES)

\* Gas limits around the cost of one transfer (TransferGas + 130 pays for the
\* transfer on the sandbox host meter as well, but not for its event), and
\* the default limits
GasLimits ==
    {0, G_GET_CONTEXT - 10, G_VERIFY_ED25519, 3000, 4000, 4500,
     TransferGas, TransferGas + 130, 2 * TransferGas, DEFAULT_GAS_LIMIT}

AllLimits ==
    {Limits(g, DEFAULT_MAX_EVENTS, DEFAULT_MAX_WRITE_BYTES) : g \in GasLimits}
    \cup {Limits(DEFAULT_GAS_LIMIT, 1, DEFAULT_MAX_WRITE_BYTES),
          Limits(DEFAULT_GAS_LIMIT, 0, DEFAULT_MAX_WRITE_BYTES),
          Limits(DEFAULT_GAS_LIMIT, DEFAULT_MAX_EVENTS, 100)}

Request(api, chain_len, height, prev, txs, limits) ==
    [api_version |-> api, chain_id_len |-> chain_len, block_height |-> height,
     prev_state_root |-> prev, transactions |-> txs, limits |-> limits]

\* A state root other than the zero hash
SomeRoot == <<INTERNAL_PREFIX, LEAF_PREFIX>>

Headers ==
    { <<API_VERSION, 1, 1>>, <<API_VERSION + 1, 1, 1>>,
      <<API_VERSION, 0, 1>>, <<API_VERSION, 1, 0>> }

Requests ==
    {Request(API_VERSION, 1, 1, ZERO_HASH, b, l) : b \in Blocks, l \in AllLimits}
    \cup {Request(h[1], h[2], h[3], r, b, Limits(g, DEFAULT_MAX_EVENTS, DEFAULT_MAX_WRITE_BYTES)) :
            h \in Headers, r \in {ZERO_HASH, SomeRoot}, b \in BlocksUpTo(1),
            g \in {0, TransferGas, DEFAULT_GAS_LIMIT}}

\* ------------------------------------------------------------------------
\* State
\* ------------------------------------------------------------------------
VARIABLES
    mode,                \* "mock" | "sandbox"
    overflow_checks,     \* whether the build traps on integer overflow
    committed,           \* the committed state store (read-only)
    request,             \* the ExecutionRequest being executed
    pc,                  \* "enter" | "validate" | "loop" | "done"
    idx,                 \* index of the next transaction
    host,                \* the executor's host: MockHost or WasmHostBridge
    hs,                  \* the sandbox HostState
    receipts,
    block_gas_exceeded,
    outcome,             \* what the caller of execute_block got
    run,                 \* number of blocks executed before this one
    first                \* request -> outcome of its first execution

vars ==
    <<mode, overflow_checks, committed, request, pc, idx, host, hs, receipts,
      block_gas_exceeded, outcome, run, first>>

NoResponse == Response(0, "None", ZERO_HASH, 0, <<>>, <<>>)

NoOutcome == [kind |-> "none", response |-> NoResponse, code |-> 0]

\* Ok(response)
Responded(resp) == [kind |-> "response", response |-> resp, code |-> 0]

\* Err(SandboxError::ExecutionFailed(code))
ExecutionFailed(code) == [kind |-> "error", response |-> NoResponse, code |-> code]

\* The executor panicked: the calling thread unwinds (MockHost), or the guest
\* traps and the sandbox returns Err(SandboxError::GuestTrapped).  A panic
\* in a host function unwinds the thread that called the sandbox.
Panicked == [kind |-> "panic", response |-> NoResponse, code |-> 0]

Env == [mode |-> mode, store |-> committed, host |-> host, hs |-> hs]

InitWith(reqs, stores) ==
    /\ mode \in {"mock", "sandbox"}
    /\ overflow_checks \in BOOLEAN
    /\ committed \in stores
    /\ request \in reqs
    /\ pc = "enter"
    /\ idx = 0
    /\ host = HostNew(ExecutionContext_from_request(Request(0, 0, 0, ZERO_HASH, <<>>, NoLimits)))
    /\ hs = HostStateNew(NoLimits)
    /\ receipts = <<>>
    /\ block_gas_exceeded = FALSE
    /\ outcome = NoOutcome
    /\ run = 0
    /\ first = EmptyMap

Init == InitWith(Requests, Stores)

\* ------------------------------------------------------------------------
\* Actions
\* ------------------------------------------------------------------------
\* The caller builds a fresh MockHost whose context is that of the request
MockEnter ==
    /\ mode = "mock"
    /\ pc = "enter"
    /\ host' = HostNew(ExecutionContext_from_request(request))
    /\ pc' = "validate"
    /\ UNCHANGED <<mode, overflow_checks, committed, request, idx, hs, receipts,
                   block_gas_exceeded, outcome, run, first>>

\* Variant of SandboxEnter: the host gas meter of the previous call is kept
SandboxEnter_StaleMeter ==
    /\ mode = "sandbox"
    /\ pc = "enter"
    /\ LET hs0 == [HostStateNew(request.limits) EXCEPT
                      !.gas_meter.consumed = hs.gas_meter.consumed]
           c == MeterCharge(hs0.gas_meter, G_GET_CONTEXT)
           e1 == LinkerHostFree([Env EXCEPT !.hs = [hs0 EXCEPT !.gas_meter = c.m]])
       IN IF ~c.ok
          THEN /\ hs' = hs0
               /\ outcome' = ExecutionFailed(ERR_OUT_OF_GAS)
               /\ pc' = "done"
               /\ UNCHANGED host
          ELSE /\ hs' = e1.hs
               /\ host' = HostNew(ExecutionContext_from_request(request))
               /\ pc' = "validate"
               /\ UNCHANGED outcome
    /\ UNCHANGED <<mode, overflow_checks, committed, request, idx, receipts,
                   block_gas_exceeded, run, first>>

\* Sandbox::execute_block up to the guest's call of the executor: a fresh
\* HostState, bedrock_init with API_VERSION, the request decoded by the
\* guest, then fetch_context_for_bridge (get_context and host_free are
\* charged on the host meter) and WasmHostBridge::with_context
SandboxEnter ==
    /\ mode = "sandbox"
    /\ pc = "enter"
    /\ LET hs0 == HostStateNew(request.limits)
           c == MeterCharge(hs0.gas_meter, G_GET_CONTEXT)
           e1 == LinkerHostFree([Env EXCEPT !.hs = [hs0 EXCEPT !.gas_meter = c.m]])
       IN IF ~c.ok
          THEN /\ hs' = hs0
               /\ outcome' = ExecutionFailed(ERR_OUT_OF_GAS)
               /\ pc' = "done"
               /\ UNCHANGED host
          ELSE /\ hs' = e1.hs
               /\ host' = HostNew(ExecutionContext_from_request(request))
               /\ pc' = "validate"
               /\ UNCHANGED outcome
    /\ UNCHANGED <<mode, overflow_checks, committed, request, idx, receipts,
                   block_gas_exceeded, run, first>>

\* What the caller receives for a response of the executor: directly from
\* BlockExecutor::execute_block, or through the guest's encoding and the
\* sandbox's decoding
Deliver(resp) ==
    IF mode = "mock" THEN Responded(resp)
    ELSE Responded(decode_execution_response(encode_execution_response(resp)))

\* execute_block, phase 1
Validate ==
    /\ pc = "validate"
    /\ IF validate_request(request)
       THEN /\ pc' = "loop"
            /\ UNCHANGED outcome
       ELSE /\ pc' = "done"
            /\ outcome' = Deliver(ResponseFailure(request.api_version, "InvalidBlock",
                                                  request.prev_state_root))
    /\ UNCHANGED <<mode, overflow_checks, committed, request, idx, host, hs, receipts,
                   block_gas_exceeded, run, first>>

\* Variant of TxDecodeFailed: the failed decoding is charged a state read
TxDecodeFailed_Charged ==
    /\ pc = "loop"
    /\ ~block_gas_exceeded
    /\ idx < Len(request.transactions)
    /\ ~decode_transaction(request.transactions[idx + 1]).ok
    /\ receipts' = Append(receipts, Receipt(idx, FALSE, 0, ERR_INVALID_ENCODING))
    /\ idx' = idx + 1
    /\ host' = Consume(Env, G_STATE_GET).e.host
    /\ UNCHANGED <<mode, overflow_checks, committed, request, pc, hs,
                   block_gas_exceeded, outcome, run, first>>

\* execute_block, phase 2: a transaction that does not decode
TxDecodeFailed ==
    /\ pc = "loop"
    /\ ~block_gas_exceeded
    /\ idx < Len(request.transactions)
    /\ ~decode_transaction(request.transactions[idx + 1]).ok
    /\ receipts' = Append(receipts, Receipt(idx, FALSE, 0, ERR_INVALID_ENCODING))
    /\ idx' = idx + 1
    /\ UNCHANGED <<mode, overflow_checks, committed, request, pc, host, hs,
                   block_gas_exceeded, outcome, run, first>>

\* execute_block, phase 2: process_transaction and the exhaustion check
TxProcess ==
    /\ pc = "loop"
    /\ ~block_gas_exceeded
    /\ idx < Len(request.transactions)
    /\ decode_transaction(request.transactions[idx + 1]).ok
    /\ LET r == process_transaction(idx, decode_transaction(request.transactions[idx + 1]).tx,
                                    Env, overflow_checks)
       IN /\ host' = r.e.host
          /\ hs' = r.e.hs
          /\ IF r.panic \/ (overflow_checks /\ r.e.hs.event_count_overflowed)
             THEN /\ pc' = "done"
                  /\ outcome' = Panicked
                  /\ UNCHANGED <<receipts, idx, block_gas_exceeded>>
             ELSE /\ receipts' = Append(receipts, r.receipt)
                  /\ IF is_exhausted(r.e.host.gas_meter)
                     THEN /\ block_gas_exceeded' = TRUE
                          /\ UNCHANGED idx
                     ELSE /\ idx' = idx + 1
                          /\ UNCHANGED block_gas_exceeded
                  /\ UNCHANGED <<pc, outcome>>
    /\ UNCHANGED <<mode, overflow_checks, committed, request, run, first>>

\* Variant of Finish: the out-of-gas response carries the overlay's root and
\* the collected events
Finish_KeepsWrites ==
    /\ pc = "loop"
    /\ block_gas_exceeded \/ idx = Len(request.transactions)
    /\ pc' = "done"
    /\ outcome' =
         Deliver(Response(request.api_version,
                          IF block_gas_exceeded THEN "OutOfGas" ELSE "Ok",
                          compute_state_root(request.prev_state_root, host.overlay),
                          host.gas_meter.consumed, receipts, host.events))
    /\ UNCHANGED <<mode, overflow_checks, committed, request, idx, host, hs, receipts,
                   block_gas_exceeded, run, first>>

\* execute_block, phases 3 and 4
Finish ==
    /\ pc = "loop"
    /\ block_gas_exceeded \/ idx = Len(request.transactions)
    /\ pc' = "done"
    /\ outcome' =
         IF block_gas_exceeded
         THEN Deliver(Response(request.api_version, "OutOfGas", request.prev_state_root,
                               host.gas_meter.consumed, receipts, <<>>))
         ELSE Deliver(Response(request.api_version, "Ok",
                               compute_state_root(request.prev_state_root, host.overlay),
                               host.gas_meter.consumed, receipts, host.events))
    /\ UNCHANGED <<mode, overflow_checks, committed, request, idx, host, hs, receipts,
                   block_gas_exceeded, run, first>>

Next == MockEnter \/ SandboxEnter \/ Validate \/ TxDecodeFailed \/ TxProcess \/ Finish

Spec == Init /\ [][Next]_vars

\* ------------------------------------------------------------------------
\* Several blocks on one program: the caller executes another request once
\* the previous call has returned.  first remembers what each request
\* returned the first time it was executed.
\* ------------------------------------------------------------------------
RerunBlocks ==
    { <<>>, <<Transfer(1, 0, 2, 1)>>, <<Transfer(1, 0, 2, 1), ShortTx>>,
      <<Transfer(1, U64_MAX, 2, 1)>> }

RerunRequests ==
    {Request(API_VERSION, 1, 1, ZERO_HASH, b,
             Limits(g, DEFAULT_MAX_EVENTS, DEFAULT_MAX_WRITE_BYTES)) :
        b \in RerunBlocks, g \in {TransferGas, DEFAULT_GAS_LIMIT}}
    \cup {Request(API_VERSION, 1, 1, SomeRoot, <<Transfer(1, 0, 2, 1)>>,
                  Limits(0, DEFAULT_MAX_EVENTS, DEFAULT_MAX_WRITE_BYTES))}

RerunStores ==
    { balance_key(1) :> u64_to_le_bytes(3),
      balance_key(1) :> u64_to_le_bytes(U64_MAX) @@ nonce_key(1) :> u64_to_le_bytes(U64_MAX) }

InitRerun == InitWith(RerunRequests, RerunStores)

NewBlock ==
    /\ pc = "done"
    /\ run < MaxReruns
    /\ first' = IF request \in DOMAIN first THEN first ELSE MapPut(first, request, outcome)
    /\ request' \in RerunRequests
    /\ run' = run + 1
    /\ pc' = "enter"
    /\ idx' = 0
    /\ receipts' = <<>>
    /\ block_gas_exceeded' = FALSE
    /\ outcome' = NoOutcome
    /\ UNCHANGED <<mode, overflow_checks, committed, host, hs>>

NextRerun == Next \/ NewBlock

SpecRerun == InitRerun /\ [][NextRerun]_vars

\* ------------------------------------------------------------------------
\* The host interface called directly: besides blocks, the program runs
\* sessions of state calls (state_get, state_set, state_delete) and sessions
\* of emit_event calls on a host built for a request, as the host tests do.
\* outcome holds what the last call returned.
\* ------------------------------------------------------------------------
HostKeys == {balance_key(1), LongKey, TooLongKey}

\* A value of MAX_VALUE_LEN bytes and one a byte longer
BigValue == [i \in 1..MAX_VALUE_LEN |-> 0]

TooBigValue == [i \in 1..(MAX_VALUE_LEN + 1) |-> 0]

HostValues == {<<>>, <<1>>, BigValue, TooBigValue}

HostStores ==
    { EmptyMap,
      balance_key(1) :> u64_to_le_bytes(3),
      balance_key(1) :> <<1>> @@ LongKey :> <<0, 1>> }

\* Default limits; a write budget of two account entries less a byte; an
\* event budget of 2
HostLimits ==
    { Limits(DEFAULT_GAS_LIMIT, DEFAULT_MAX_EVENTS, DEFAULT_MAX_WRITE_BYTES),
      Limits(DEFAULT_GAS_LIMIT, DEFAULT_MAX_EVENTS, 2 * KeyLen(balance_key(1)) - 1),
      Limits(DEFAULT_GAS_LIMIT, 2, DEFAULT_MAX_WRITE_BYTES) }

\* Enough emit_event calls for the u32 event counter to pass u32::MAX
MaxEmits == U32_MAX + 2

HostEvent == TransferEvent(0, 1, 2, 1)

\* The sandbox HostState once the guest has fetched its context
HostStateFetched(limits) ==
    LinkerHostFree(
        [hs |-> Charged(HostStateNew(limits),
                        MeterCharge(GasMeterNew(limits.gas_limit), G_GET_CONTEXT))]).hs

InitHost ==
    /\ mode \in {"mock", "sandbox"}
    /\ overflow_checks \in BOOLEAN
    /\ committed \in HostStores
    /\ \/ /\ pc = "enter"
          /\ request \in RerunRequests
          /\ host = HostNew(ExecutionContext_from_request(Request(0, 0, 0, ZERO_HASH, <<>>, NoLimits)))
          /\ hs = HostStateNew(NoLimits)
       \/ /\ pc \in {"state_calls", "event_calls"}
          /\ request \in {Request(API_VERSION, 1, 1, ZERO_HASH, <<>>, l) : l \in HostLimits}
          /\ host = HostNew(ExecutionContext_from_request(request))
          /\ hs = IF mode = "mock" THEN HostStateNew(NoLimits)
                  ELSE HostStateFetched(request.limits)
    /\ idx = 0
    /\ receipts = <<>>
    /\ block_gas_exceeded = FALSE
    /\ outcome = NoOutcome
    /\ run = 0
    /\ first = EmptyMap

\* What a host call returned
Called(op, r) == [kind |-> op, response |-> NoResponse, code |-> r.code, val |-> r.val]

\* Variant of HostCallReturns: the overlay is written through to the store
HostCallReturns_WriteThrough(op, r) ==
    /\ host' = r.e.host
    /\ hs' = r.e.hs
    /\ idx' = idx + 1
    /\ committed' = MockHost_commit(r.e.store, r.e.host.overlay)
    /\ IF overflow_checks /\ r.e.hs.event_count_overflowed
       THEN pc' = "done" /\ outcome' = Panicked
       ELSE pc' = pc /\ outcome' = Called(op, r)
    /\ UNCHANGED <<mode, overflow_checks, request, receipts,
                   block_gas_exceeded, run, first>>

\* A host call returned r; the store the host reads from is the one it read
\* from before
HostCallReturns(op, r) ==
    /\ host' = r.e.host
    /\ hs' = r.e.hs
    /\ idx' = idx + 1
    /\ committed' = r.e.store
    /\ IF overflow_checks /\ r.e.hs.event_count_overflowed
       THEN pc' = "done" /\ outcome' = Panicked
       ELSE pc' = pc /\ outcome' = Called(op, r)
    /\ UNCHANGED <<mode, overflow_checks, request, receipts,
                   block_gas_exceeded, run, first>>

HostGet(k) ==
    /\ pc = "state_calls"
    /\ idx < MaxHostCalls
    /\ HostCallReturns("state_get", StateGet(Env, k))

HostSet(k, value) ==
    /\ pc = "state_calls"
    /\ idx < MaxHostCalls
    /\ HostCallReturns("state_set", StateSet(Env, k, value))

HostDelete(k) ==
    /\ pc = "state_calls"
    /\ idx < MaxHostCalls
    /\ HostCallReturns("state_delete", StateDelete(Env, k))

HostEmit ==
    /\ pc = "event_calls"
    /\ idx < MaxEmits
    /\ HostCallReturns("emit_event", EmitEvent(Env, HostEvent))

\* After a block the caller of a MockHost commits: MockHost::commit
MockCommit ==
    /\ mode = "mock"
    /\ pc = "done"
    /\ committed' = MockHost_commit(committed, host.overlay)
    /\ host' = [host EXCEPT !.overlay = OverlayNew]
    /\ pc' = "committed"
    /\ UNCHANGED <<overflow_checks, mode, request, idx, hs, receipts,
                   block_gas_exceeded, outcome, run, first>>

HostGetCall == \E k \in HostKeys : HostGet(k)

HostSetCall == \E k \in HostKeys, value \in HostValues : HostSet(k, value)

HostDeleteCall == \E k \in HostKeys : HostDelete(k)

NextHost == Next \/ HostGetCall \/ HostSetCall \/ HostDeleteCall \/ HostEmit \/ MockCommit

SpecHost == InitHost /\ [][NextHost]_vars

\* ------------------------------------------------------------------------
\* Gas meters on their own: GasMeter (host.gas_meter) and HostGasMeter
\* (hs.gas_meter), charged with amounts over the whole u64 range
\* ------------------------------------------------------------------------
\* u64::checked_add
checked_add(a, b) == IF a + b <= U64_MAX THEN Some(a + b) ELSE None

\* u64::wrapping_add
wrapping_add(a, b) == Some((a + b) % (U64_MAX + 1))

\* The match on the sum: Some(v) if v <= limit advances the meter
MeterAdvance(m, v) ==
    IF v.some /\ v.val <= m.limit
    THEN [ok |-> TRUE, m |-> [m EXCEPT !.consumed = v.val]]
    ELSE [ok |-> FALSE, m |-> m]

\* Variant of GasMeter_consume: the sum wraps
GasMeter_consume_Wrapping(m, amount) == MeterAdvance(m, wrapping_add(m.consumed, amount))

\* GasMeter::consume
GasMeter_consume(m, amount) == MeterAdvance(m, checked_add(m.consumed, amount))

\* HostGasMeter::charge
HostGasMeter_charge(m, amount) == MeterAdvance(m, checked_add(m.consumed, amount))

\* GasMeter::remaining / HostGasMeter::remaining
remaining(m) == SatSub(m.limit, m.consumed)

MeterLimits == {0, 100, U64_MAX - 1, U64_MAX}

MeterAmounts == {0, 1, 100, U64_MAX - 1, U64_MAX}

InitMeter ==
    /\ mode = "mock"
    /\ overflow_checks = FALSE
    /\ committed = EmptyMap
    /\ pc = "meter"
    /\ request \in {Request(API_VERSION, 1, 1, ZERO_HASH, <<>>,
                            Limits(l, DEFAULT_MAX_EVENTS, DEFAULT_MAX_WRITE_BYTES)) :
                      l \in MeterLimits}
    /\ host = HostNew(ExecutionContext_from_request(request))
    /\ hs = HostStateNew(request.limits)
    /\ idx = 0
    /\ receipts = <<>>
    /\ block_gas_exceeded = FALSE
    /\ outcome = NoOutcome
    /\ run = 0
    /\ first = EmptyMap

\* What a charge of amount returned
ChargeResult(op, amount, r) ==
    [kind |-> op, response |-> NoResponse,
     code |-> IF r.ok THEN ERR_OK ELSE ERR_OUT_OF_GAS, val |-> amount]

GasConsume(amount) ==
    /\ pc = "meter"
    /\ idx < MaxCharges
    /\ host' = [host EXCEPT !.gas_meter = GasMeter_consume(host.gas_meter, amount).m]
    /\ outcome' = ChargeResult("consume", amount, GasMeter_consume(host.gas_meter, amount))
    /\ idx' = idx + 1
    /\ UNCHANGED <<mode, overflow_checks, committed, request, pc, hs, receipts,
                   block_gas_exceeded, run, first>>

HostCharge(amount) ==
    /\ pc = "meter"
    /\ idx < MaxCharges
    /\ hs' = [hs EXCEPT !.gas_meter = HostGasMeter_charge(hs.gas_meter, amount).m]
    /\ outcome' = ChargeResult("charge", amount, HostGasMeter_charge(hs.gas_meter, amount))
    /\ idx' = idx + 1
    /\ UNCHANGED <<mode, overflow_checks, committed, request, pc, host, receipts,
                   block_gas_exceeded, run, first>>

GasConsumeCall == \E amount \in MeterAmounts : GasConsume(amount)

HostChargeCall == \E amount \in MeterAmounts : HostCharge(amount)

NextMeter == GasConsumeCall \/ HostChargeCall

SpecMeter == InitMeter /\ [][NextMeter]_vars

\* ------------------------------------------------------------------------
\* The StateOverlay on its own (host.overlay): set, delete and clear in any
\* order
\* ------------------------------------------------------------------------
\* StateOverlay::clear
OverlayClear(ov) == [writes |-> EmptyMap, total_write_bytes |-> 0]

OverlayKeys == {balance_key(1), nonce_key(1), LongKey}

OverlayValues == {<<>>, <<1>>, u64_to_le_bytes(3)}

InitOverlay ==
    /\ mode = "mock"
    /\ overflow_checks = FALSE
    /\ committed = EmptyMap
    /\ pc = "overlay"
    /\ request = Request(API_VERSION, 1, 1, ZERO_HASH, <<>>,
                         Limits(DEFAULT_GAS_LIMIT, DEFAULT_MAX_EVENTS, DEFAULT_MAX_WRITE_BYTES))
    /\ host = HostNew(ExecutionContext_from_request(request))
    /\ hs = HostStateNew(request.limits)
    /\ idx = 0
    /\ receipts = <<>>
    /\ block_gas_exceeded = FALSE
    /\ outcome = NoOutcome
    /\ run = 0
    /\ first = EmptyMap

\* An overlay operation on key k was made; val is what the overlay held for
\* k before it
OverlayOp(op, k, ov) ==
    /\ host' = [host EXCEPT !.overlay = ov]
    /\ outcome' = [kind |-> op, response |-> NoResponse, code |-> ERR_OK,
                   val |-> OverlayGet(host.overlay, k).tag]
    /\ idx' = idx + 1
    /\ UNCHANGED <<mode, overflow_checks, committed, request, pc, hs, receipts,
                   block_gas_exceeded, run, first>>

OvSet(k, value) ==
    /\ pc = "overlay"
    /\ idx < MaxOverlayOps
    /\ OverlayOp("set", k, OverlaySet(host.overlay, k, value))

OvDelete(k) ==
    /\ pc = "overlay"
    /\ idx < MaxOverlayOps
    /\ OverlayOp("delete", k, OverlayDelete(host.overlay, k))

OvClear ==
    /\ pc = "overlay"
    /\ idx < MaxOverlayOps
    /\ OverlayOp("clear", LongKey, OverlayClear(host.overlay))

OvSetCall == \E k \in OverlayKeys, value \in OverlayValues : OvSet(k, value)

OvDeleteCall == \E k \in OverlayKeys : OvDelete(k)

NextOverlay == OvSetCall \/ OvDeleteCall \/ OvClear

SpecOverlay == InitOverlay /\ [][NextOverlay]_vars

\* ------------------------------------------------------------------------
\* The log host function: the import of the sandbox linker called with any
\* arguments, and HostInterface::log on both hosts
\* ------------------------------------------------------------------------
gas_cost_log(msg_len) == G_LOG + msg_len * G_PER_BYTE

\* A message as the import sees it: its length, whether [msg_ptr,
\* msg_ptr + msg_len) lies in guest memory, whether its bytes are UTF-8
LogMessage(len, ptr_ok, utf8) == [len |-> len, ptr_ok |-> ptr_ok, utf8 |-> utf8]

LogLine(level, msg) == [level |-> level, len |-> msg.len]

\* HostState::add_log: always Ok; oversized lines and lines beyond the limit
\* are dropped
HostState_add_log(st, level, msg) ==
    IF msg.len > st.max_log_line_len THEN st
    ELSE IF Len(st.logs) >= st.max_log_lines THEN st
    ELSE [st EXCEPT !.logs = Append(st.logs, LogLine(level, msg))]

\* register_log after the message was read: charge, check UTF-8, add_log
Linker_log_charged(st, level, msg, c) ==
    IF ~c.ok THEN [code |-> ERR_OUT_OF_GAS, hs |-> st]
    ELSE IF ~msg.utf8 THEN [code |-> ERR_INVALID_ENCODING, hs |-> Charged(st, c)]
    ELSE [code |-> ERR_OK, hs |-> HostState_add_log(Charged(st, c), level, msg)]

\* register_log: the "log" import
Linker_log(st, level, msg) ==
    IF ~msg.ptr_ok THEN [code |-> ERR_BAD_POINTER, hs |-> st]
    ELSE Linker_log_charged(st, level, msg,
                            MeterCharge(st.gas_meter, gas_cost_log(msg.len)))

\* HostInterface::log: MockHost::log pushes the line; WasmHostBridge::log
\* calls the import on a &str, ignores its result and pushes the line
HostLogged(e, level, msg) ==
    IF e.mode = "mock"
    THEN Ret(ERR_OK, None, [e EXCEPT !.host.logs = Append(e.host.logs, LogLine(level, msg))])
    ELSE Ret(ERR_OK, None,
             [e EXCEPT !.hs = Linker_log(e.hs, level, msg).hs,
                       !.host.logs = Append(e.host.logs, LogLine(level, msg))])

LogLens == {1, DEFAULT_MAX_LOG_LINE_LEN, DEFAULT_MAX_LOG_LINE_LEN + 1}

LogMessages == {LogMessage(n, p, u) : n \in LogLens, p \in BOOLEAN, u \in BOOLEAN}

\* The default limits, and a gas limit that pays for the context fetch and
\* one short line
LogLimits ==
    { Limits(DEFAULT_GAS_LIMIT, DEFAULT_MAX_EVENTS, DEFAULT_MAX_WRITE_BYTES),
      Limits(G_GET_CONTEXT + G_HOST_FREE + gas_cost_log(1) + 2,
             DEFAULT_MAX_EVENTS, DEFAULT_MAX_WRITE_BYTES) }

\* The line limit of test_log_limit_silently_drops
TestMaxLogLines == 2

InitLog ==
    /\ mode \in {"mock", "sandbox"}
    /\ overflow_checks = FALSE
    /\ committed = EmptyMap
    /\ pc = "log_calls"
    /\ request \in {Request(API_VERSION, 1, 1, ZERO_HASH, <<>>, l) : l \in LogLimits}
    /\ host = HostNew(ExecutionContext_from_request(request))
    /\ hs = IF mode = "mock" THEN HostStateNew(NoLimits)
            ELSE [HostStateFetched(request.limits) EXCEPT !.max_log_lines = TestMaxLogLines]
    /\ idx = 0
    /\ receipts = <<>>
    /\ block_gas_exceeded = FALSE
    /\ outcome = NoOutcome
    /\ run = 0
    /\ first = EmptyMap

\* The guest calls the import directly
LogImport(msg) ==
    /\ pc = "log_calls"
    /\ mode = "sandbox"
    /\ idx < MaxLogCalls
    /\ hs' = Linker_log(hs, 0, msg).hs
    /\ outcome' = [kind |-> "log_import", response |-> NoResponse,
                   code |-> Linker_log(hs, 0, msg).code, val |-> msg]
    /\ idx' = idx + 1
    /\ UNCHANGED <<mode, overflow_checks, committed, request, pc, host, receipts,
                   block_gas_exceeded, run, first>>

\* The executor logs through its HostInterface
HostLog(len) ==
    /\ pc = "log_calls"
    /\ idx < MaxLogCalls
    /\ host' = HostLogged(Env, 0, LogMessage(len, TRUE, TRUE)).e.host
    /\ hs' = HostLogged(Env, 0, LogMessage(len, TRUE, TRUE)).e.hs
    /\ outcome' = [kind |-> "log", response |-> NoResponse,
                   code |-> HostLogged(Env, 0, LogMessage(len, TRUE, TRUE)).code,
                   val |-> LogMessage(len, TRUE, TRUE)]
    /\ idx' = idx + 1
    /\ UNCHANGED <<mode, overflow_checks, committed, request, pc, receipts,
                   block_gas_exceeded, run, first>>

LogImportCall == \E msg \in LogMessages : LogImport(msg)

HostLogCall == \E len \in LogLens : HostLog(len)

NextLog == LogImportCall \/ HostLogCall

SpecLog == InitLog /\ [][NextLog]_vars

\* ------------------------------------------------------------------------
\* Guest linear memory: instantiation by the sandbox runtime, memory.grow by
\* the guest, and the host allocator of the runtime and of the linker.
\* Here host is the instance (its memory and the SandboxConfig it was
\* created under) and hs.host_alloc the HostAllocator.
\* ------------------------------------------------------------------------
PAGE_SIZE == 65536

HOST_ALLOC_PAGES == 4

DEFAULT_MAX_MEMORY_PAGES == 256

\* The exported memory of a module: initial and declared maximum pages
Memory(pages, maximum) == [pages |-> pages, maximum |-> maximum]

\* Memory::grow.  create_engine sets no limit on the store or the engine
\* (max_memory_pages only sizes the dense image), so the declared maximum of
\* the module is what a grow is checked against.
Memory_grow(mem, delta) ==
    IF mem.pages + delta <= mem.maximum
    THEN [ok |-> TRUE, mem |-> [mem EXCEPT !.pages = mem.pages + delta]]
    ELSE [ok |-> FALSE, mem |-> mem]

align8(size) == ((size + 7) \div 8) * 8

div_ceil(a, b) == (a + b - 1) \div b

\* HostAllocator::new
HostAllocator(base, capacity) == [base |-> base, bump |-> 0, capacity |-> capacity]

\* Variant of compute_alloc: the size is not rounded up to a multiple of 8
compute_alloc_Unaligned(a, size) ==
    IF a.bump + (IF size > 1 THEN size ELSE 1) <= a.capacity
    THEN [ptr |-> a.base + a.bump,
          bump |-> a.bump + (IF size > 1 THEN size ELSE 1),
          capacity |-> a.capacity,
          grow_pages |-> 0]
    ELSE [ptr |-> a.base + a.bump,
          bump |-> a.bump + (IF size > 1 THEN size ELSE 1),
          capacity |-> a.capacity
                        + div_ceil(a.bump + (IF size > 1 THEN size ELSE 1) - a.capacity,
                                   PAGE_SIZE) * PAGE_SIZE,
          grow_pages |-> div_ceil(a.bump + (IF size > 1 THEN size ELSE 1) - a.capacity,
                                  PAGE_SIZE)]

\* HostAllocator::compute_alloc
compute_alloc(a, size) ==
    IF a.bump + align8(IF size > 1 THEN size ELSE 1) <= a.capacity
    THEN [ptr |-> a.base + a.bump,
          bump |-> a.bump + align8(IF size > 1 THEN size ELSE 1),
          capacity |-> a.capacity,
          grow_pages |-> 0]
    ELSE [ptr |-> a.base + a.bump,
          bump |-> a.bump + align8(IF size > 1 THEN size ELSE 1),
          capacity |-> a.capacity
                        + div_ceil(a.bump + align8(IF size > 1 THEN size ELSE 1) - a.capacity,
                                   PAGE_SIZE) * PAGE_SIZE,
          grow_pages |-> div_ceil(a.bump + align8(IF size > 1 THEN size ELSE 1) - a.capacity,
                                  PAGE_SIZE)]

\* HostAllocator::commit
commit(a, c) == [a EXCEPT !.bump = c.bump, !.capacity = c.capacity]

Modules == {Memory(1, 1), Memory(1, 300), Memory(17, DEFAULT_MAX_MEMORY_PAGES)}

GrowDeltas == {1, 235, 251}

AllocSizes == {0, 8, HOST_ALLOC_PAGES * PAGE_SIZE, 250 * PAGE_SIZE}

MemoryError == [kind |-> "memory_error", response |-> NoResponse, code |-> 0, val |-> None]

MemoryOp(op, code) == [kind |-> op, response |-> NoResponse, code |-> code, val |-> None]

InitMemory ==
    /\ mode = "sandbox"
    /\ overflow_checks = FALSE
    /\ committed = EmptyMap
    /\ pc = "instantiate"
    /\ request = Request(API_VERSION, 1, 1, ZERO_HASH, <<>>,
                         Limits(DEFAULT_GAS_LIMIT, DEFAULT_MAX_EVENTS, DEFAULT_MAX_WRITE_BYTES))
    /\ host \in {[memory |-> m, max_memory_pages |-> DEFAULT_MAX_MEMORY_PAGES] : m \in Modules}
    /\ hs = [host_alloc |-> HostAllocator(0, 0)]
    /\ idx = 0
    /\ receipts = <<>>
    /\ block_gas_exceeded = FALSE
    /\ outcome = NoOutcome
    /\ run = 0
    /\ first = EmptyMap

\* Sandbox::execute_block, step 7: the initial grow and the allocator
MemInstantiated(g) ==
    IF ~g.ok
    THEN /\ pc' = "done"
         /\ outcome' = MemoryError
         /\ UNCHANGED <<host, hs>>
    ELSE /\ pc' = "guest"
         /\ host' = [host EXCEPT !.memory = g.mem]
         /\ hs' = [hs EXCEPT !.host_alloc = HostAllocator(host.memory.pages * PAGE_SIZE,
                                                          HOST_ALLOC_PAGES * PAGE_SIZE)]
         /\ outcome' = MemoryOp("instantiate", ERR_OK)

MemInstantiate ==
    /\ pc = "instantiate"
    /\ MemInstantiated(Memory_grow(host.memory, HOST_ALLOC_PAGES))
    /\ UNCHANGED <<mode, overflow_checks, committed, request, idx, receipts,
                   block_gas_exceeded, run, first>>

\* The guest executes memory.grow
GuestGrow(delta) ==
    /\ pc = "guest"
    /\ idx < MaxMemOps
    /\ host' = [host EXCEPT !.memory = Memory_grow(host.memory, delta).mem]
    /\ outcome' = MemoryOp("memory.grow",
                           IF Memory_grow(host.memory, delta).ok THEN ERR_OK ELSE ERR_INTERNAL)
    /\ idx' = idx + 1
    /\ UNCHANGED <<mode, overflow_checks, committed, request, pc, hs, receipts,
                   block_gas_exceeded, run, first>>

\* alloc_and_write of the runtime, after compute_alloc gave c and the grow g
AllocWritten(c, g) ==
    IF c.grow_pages > 0 /\ ~g.ok
    THEN /\ pc' = "done"
         /\ outcome' = MemoryError
         /\ UNCHANGED <<host, hs>>
    ELSE /\ pc' = pc
         /\ host' = [host EXCEPT !.memory = IF c.grow_pages > 0 THEN g.mem ELSE host.memory]
         /\ hs' = [hs EXCEPT !.host_alloc = commit(hs.host_alloc, c)]
         /\ outcome' = MemoryOp("alloc_and_write", ERR_OK)

HostAllocWrite(size) ==
    /\ pc = "guest"
    /\ idx < MaxMemOps
    /\ IF size = 0
       THEN /\ outcome' = MemoryOp("alloc_and_write", ERR_OK)
            /\ UNCHANGED <<pc, host, hs>>
       ELSE AllocWritten(compute_alloc(hs.host_alloc, size),
                         Memory_grow(host.memory, compute_alloc(hs.host_alloc, size).grow_pages))
    /\ idx' = idx + 1
    /\ UNCHANGED <<mode, overflow_checks, committed, request, receipts,
                   block_gas_exceeded, run, first>>

\* The allocation of the state_get and get_context imports: a failing grow
\* returns the internal error code to the guest
LinkerAllocated(c, g) ==
    IF c.grow_pages > 0 /\ ~g.ok
    THEN /\ outcome' = MemoryOp("linker_alloc", ERR_INTERNAL)
         /\ UNCHANGED <<host, hs>>
    ELSE /\ host' = [host EXCEPT !.memory = IF c.grow_pages > 0 THEN g.mem ELSE host.memory]
         /\ hs' = [hs EXCEPT !.host_alloc = commit(hs.host_alloc, c)]
         /\ outcome' = MemoryOp("linker_alloc", ERR_OK)

LinkerAlloc(size) ==
    /\ pc = "guest"
    /\ idx < MaxMemOps
    /\ LinkerAllocated(compute_alloc(hs.host_alloc, size),
                       Memory_grow(host.memory, compute_alloc(hs.host_alloc, size).grow_pages))
    /\ idx' = idx + 1
    /\ UNCHANGED <<mode, overflow_checks, committed, request, pc, receipts,
                   block_gas_exceeded, run, first>>

GuestGrowCall == \E delta \in GrowDeltas : GuestGrow(delta)

HostAllocWriteCall == \E size \in AllocSizes : HostAllocWrite(size)

LinkerAllocCall == \E size \in AllocSizes : LinkerAlloc(size)

NextMemory == MemInstantiate \/ GuestGrowCall \/ HostAllocWriteCall \/ LinkerAllocCall

SpecMemory == InitMemory /\ [][NextMemory]_vars

\* ------------------------------------------------------------------------
\* The host imports of the sandbox linker, called by a guest with any
\* arguments.  An argument carries whether its pointer range lies in guest
\* memory.  Here host is the instance (its memory) and hs the HostState with
\* its allocator.
\* ------------------------------------------------------------------------
G_HASH_BLAKE3 == 50

G_GAS_REMAINING == 5

HASH_LEN == 32

gas_cost_hash_blake3(input_len) == G_HASH_BLAKE3 + input_len * G_PER_BYTE

\* encode_execution_context: chain_id, height, time, block hash, gas limit,
\* max_events, max_write_bytes, api_version, optional seed (absent)
ContextEncodedLen(chain_id_len) ==
    (U32_BYTES + chain_id_len) + U64_BYTES + U64_BYTES + HASH_LEN + U64_BYTES
      + U32_BYTES + U32_BYTES + U32_BYTES + 1

\* What an import returned: its code, the HostState and the memory it left
IRet(code, st, mem) == [code |-> code, hs |-> st, mem |-> mem]

\* The allocation inside state_get and get_context: c is the computed
\* allocation, g the grow it needs
Import_allocated(st, mem, c, g) ==
    IF c.grow_pages > 0 /\ ~g.ok THEN IRet(ERR_INTERNAL, st, mem)
    ELSE IRet(ERR_OK, [st EXCEPT !.host_alloc = commit(st.host_alloc, c)],
              IF c.grow_pages > 0 THEN g.mem ELSE mem)

Import_alloc(st, mem, size) ==
    Import_allocated(st, mem, compute_alloc(st.host_alloc, size),
                     Memory_grow(mem, compute_alloc(st.host_alloc, size).grow_pages))

\* register_state_get after the charge c
Import_state_get_charged(st, mem, c, v) ==
    IF ~c.ok THEN IRet(ERR_OUT_OF_GAS, st, mem)
    ELSE IF v.some THEN Import_alloc(Charged(st, c), mem, Len(v.val))
    ELSE IRet(ERR_OK, Charged(st, c), mem)

\* register_state_get: read the key, validate the output locations, charge,
\* look up, allocate and write
Import_state_get(st, mem, store, k, key_ok, out_ok) ==
    IF ~key_ok THEN IRet(ERR_BAD_POINTER, st, mem)
    ELSE IF ~out_ok THEN IRet(ERR_BAD_POINTER, st, mem)
    ELSE Import_state_get_charged(st, mem, MeterCharge(st.gas_meter, gas_cost_state_get(KeyLen(k))),
                                  HostState_state_get(st, store, k))

\* register_state_set / register_state_delete after the charge c: r is what
\* the HostState returned on the charged state
Import_written(st, mem, c, r) ==
    IF ~c.ok THEN IRet(ERR_OUT_OF_GAS, st, mem) ELSE IRet(r.code, r.hs, mem)

\* Variant of Import_state_set: the gas is charged before the value is read
Import_state_set_ChargeFirst(st, mem, k, value, key_ok, val_ok) ==
    IF ~key_ok THEN IRet(ERR_BAD_POINTER, st, mem)
    ELSE IF ~val_ok
    THEN IRet(ERR_BAD_POINTER,
              Charged(st, MeterCharge(st.gas_meter, gas_cost_state_set(KeyLen(k), Len(value)))),
              mem)
    ELSE Import_written(st, mem,
             MeterCharge(st.gas_meter, gas_cost_state_set(KeyLen(k), Len(value))),
             HostState_state_set(
                 Charged(st, MeterCharge(st.gas_meter, gas_cost_state_set(KeyLen(k), Len(value)))),
                 k, value))

\* register_state_set: read key and value, charge, write
Import_state_set(st, mem, k, value, key_ok, val_ok) ==
    IF ~key_ok THEN IRet(ERR_BAD_POINTER, st, mem)
    ELSE IF ~val_ok THEN IRet(ERR_BAD_POINTER, st, mem)
    ELSE Import_written(st, mem,
             MeterCharge(st.gas_meter, gas_cost_state_set(KeyLen(k), Len(value))),
             HostState_state_set(
                 Charged(st, MeterCharge(st.gas_meter, gas_cost_state_set(KeyLen(k), Len(value)))),
                 k, value))

\* register_state_delete: read the key, charge, delete
Import_state_delete(st, mem, k, key_ok) ==
    IF ~key_ok THEN IRet(ERR_BAD_POINTER, st, mem)
    ELSE Import_written(st, mem,
             MeterCharge(st.gas_meter, gas_cost_state_delete(KeyLen(k))),
             HostState_state_delete(
                 Charged(st, MeterCharge(st.gas_meter, gas_cost_state_delete(KeyLen(k)))), k))

\* register_emit_event after the charge c: decode, then add_event
Import_emit_event_charged(st, mem, event, decodes, c) ==
    IF ~c.ok THEN IRet(ERR_OUT_OF_GAS, st, mem)
    ELSE IF ~decodes THEN IRet(ERR_INVALID_ENCODING, Charged(st, c), mem)
    ELSE IRet(HostState_add_event(Charged(st, c), event).code,
              HostState_add_event(Charged(st, c), event).hs, mem)

\* register_emit_event: read the bytes, charge, decode, add_event
Import_emit_event(st, mem, event, ptr_ok, decodes) ==
    IF ~ptr_ok THEN IRet(ERR_BAD_POINTER, st, mem)
    ELSE Import_emit_event_charged(st, mem, event, decodes,
             MeterCharge(st.gas_meter, gas_cost_emit_event(EventEncodedLen)))

\* register_log
Import_log(st, mem, msg) == IRet(Linker_log(st, 0, msg).code, Linker_log(st, 0, msg).hs, mem)

\* register_hash_blake3: out_len must be 32, the output range and the input
\* are validated, then the charge
Import_hash_blake3(st, mem, in_len, out_len, in_ok, out_ok) ==
    IF out_len # HASH_LEN THEN IRet(ERR_BAD_POINTER, st, mem)
    ELSE IF ~out_ok THEN IRet(ERR_BAD_POINTER, st, mem)
    ELSE IF ~in_ok THEN IRet(ERR_BAD_POINTER, st, mem)
    ELSE IF ~MeterCharge(st.gas_meter, gas_cost_hash_blake3(in_len)).ok
    THEN IRet(ERR_OUT_OF_GAS, st, mem)
    ELSE IRet(ERR_OK, Charged(st, MeterCharge(st.gas_meter, gas_cost_hash_blake3(in_len))), mem)

\* register_verify_ed25519: read the three inputs, check the lengths of
\* signature and key, charge, verify
Import_verify_ed25519(st, mem, tx, ptrs_ok, lens_ok) ==
    IF ~ptrs_ok THEN IRet(ERR_BAD_POINTER, st, mem)
    ELSE IF ~lens_ok THEN IRet(ERR_BAD_POINTER, st, mem)
    ELSE IF ~MeterCharge(st.gas_meter, G_VERIFY_ED25519).ok THEN IRet(ERR_OUT_OF_GAS, st, mem)
    ELSE IRet(IF SignatureValid(tx) THEN ERR_OK ELSE ERR_SIG_INVALID,
              Charged(st, MeterCharge(st.gas_meter, G_VERIFY_ED25519)), mem)

\* register_gas_remaining: validate the output range, charge, write
Import_gas_remaining(st, mem, out_ok) ==
    IF ~out_ok THEN IRet(ERR_BAD_POINTER, st, mem)
    ELSE IF ~MeterCharge(st.gas_meter, G_GAS_REMAINING).ok THEN IRet(ERR_OUT_OF_GAS, st, mem)
    ELSE IRet(ERR_OK, Charged(st, MeterCharge(st.gas_meter, G_GAS_REMAINING)), mem)

\* register_host_free
Import_host_free(st, mem) ==
    IF ~MeterCharge(st.gas_meter, G_HOST_FREE).ok THEN IRet(ERR_OUT_OF_GAS, st, mem)
    ELSE IRet(ERR_OK, Charged(st, MeterCharge(st.gas_meter, G_HOST_FREE)), mem)

\* register_get_context: validate the output locations, charge, allocate
Import_get_context(st, mem, chain_id_len, out_ok) ==
    IF ~out_ok THEN IRet(ERR_BAD_POINTER, st, mem)
    ELSE IF ~MeterCharge(st.gas_meter, G_GET_CONTEXT).ok THEN IRet(ERR_OUT_OF_GAS, st, mem)
    ELSE Import_alloc(Charged(st, MeterCharge(st.gas_meter, G_GET_CONTEXT)), mem,
                      ContextEncodedLen(chain_id_len))

\* The default limits, and a gas limit that pays for the context fetch, one
\* write and little more
ImportLimits ==
    { Limits(DEFAULT_GAS_LIMIT, DEFAULT_MAX_EVENTS, DEFAULT_MAX_WRITE_BYTES),
      Limits(G_GET_CONTEXT + G_HOST_FREE + gas_cost_state_set(KeyLen(balance_key(1)), 1)
               + G_LOG,
             DEFAULT_MAX_EVENTS, DEFAULT_MAX_WRITE_BYTES) }

ImportStores == {EmptyMap, balance_key(1) :> u64_to_le_bytes(3)}

\* A guest module with 17 pages of its own and a declared maximum
ImportMemory == Memory(17 + HOST_ALLOC_PAGES, DEFAULT_MAX_MEMORY_PAGES)

InitImport ==
    /\ mode = "sandbox"
    /\ overflow_checks = FALSE
    /\ committed \in ImportStores
    /\ pc = "imports"
    /\ request \in {Request(API_VERSION, 1, 1, ZERO_HASH, <<>>, l) : l \in ImportLimits}
    /\ host = [memory |-> ImportMemory]
    /\ hs = [host_alloc |-> HostAllocator(17 * PAGE_SIZE, HOST_ALLOC_PAGES * PAGE_SIZE)]
              @@ HostStateFetched(request.limits)
    /\ idx = 0
    /\ receipts = <<>>
    /\ block_gas_exceeded = FALSE
    /\ outcome = NoOutcome
    /\ run = 0
    /\ first = EmptyMap

\* An import returned r
ImportReturns(op, r) ==
    /\ hs' = r.hs
    /\ host' = [host EXCEPT !.memory = r.mem]
    /\ outcome' = [kind |-> op, response |-> NoResponse, code |-> r.code, val |-> None]
    /\ idx' = idx + 1
    /\ UNCHANGED <<mode, overflow_checks, committed, request, pc, receipts,
                   block_gas_exceeded, run, first>>

ImportStateGet(key_ok, out_ok) ==
    /\ pc = "imports"
    /\ idx < MaxImportCalls
    /\ ImportReturns("state_get",
           Import_state_get(hs, host.memory, committed, balance_key(1), key_ok, out_ok))

ImportStateSet(key_ok, val_ok) ==
    /\ pc = "imports"
    /\ idx < MaxImportCalls
    /\ ImportReturns("state_set",
           Import_state_set(hs, host.memory, balance_key(1), <<1>>, key_ok, val_ok))

ImportStateDelete(key_ok) ==
    /\ pc = "imports"
    /\ idx < MaxImportCalls
    /\ ImportReturns("state_delete",
           Import_state_delete(hs, host.memory, balance_key(1), key_ok))

ImportEmitEvent(ptr_ok, decodes) ==
    /\ pc = "imports"
    /\ idx < MaxImportCalls
    /\ ImportReturns("emit_event",
           Import_emit_event(hs, host.memory, HostEvent, ptr_ok, decodes))

ImportLog(ptr_ok) ==
    /\ pc = "imports"
    /\ idx < MaxImportCalls
    /\ ImportReturns("log", Import_log(hs, host.memory, LogMessage(1, ptr_ok, TRUE)))

ImportHashBlake3(out_len, in_ok, out_ok) ==
    /\ pc = "imports"
    /\ idx < MaxImportCalls
    /\ ImportReturns("hash_blake3",
           Import_hash_blake3(hs, host.memory, 1, out_len, in_ok, out_ok))

ImportVerifyEd25519(ptrs_ok, lens_ok) ==
    /\ pc = "imports"
    /\ idx < MaxImportCalls
    /\ ImportReturns("verify_ed25519",
           Import_verify_ed25519(hs, host.memory, decode_transaction(Transfer(1, 0, 2, 1)).tx,
                                 ptrs_ok, lens_ok))

ImportGasRemaining(out_ok) ==
    /\ pc = "imports"
    /\ idx < MaxImportCalls
    /\ ImportReturns("gas_remaining", Import_gas_remaining(hs, host.memory, out_ok))

ImportHostFree ==
    /\ pc = "imports"
    /\ idx < MaxImportCalls
    /\ ImportReturns("host_free", Import_host_free(hs, host.memory))

ImportGetContext(out_ok) ==
    /\ pc = "imports"
    /\ idx < MaxImportCalls
    /\ ImportReturns("get_context",
           Import_get_context(hs, host.memory, request.chain_id_len, out_ok))

ImportStateGetCall == \E key_ok \in BOOLEAN, out_ok \in BOOLEAN : ImportStateGet(key_ok, out_ok)

ImportStateSetCall == \E key_ok \in BOOLEAN, val_ok \in BOOLEAN : ImportStateSet(key_ok, val_ok)

ImportStateDeleteCall == \E key_ok \in BOOLEAN : ImportStateDelete(key_ok)

ImportEmitEventCall ==
    \E ptr_ok \in BOOLEAN, decodes \in BOOLEAN : ImportEmitEvent(ptr_ok, decodes)

ImportLogCall == \E ptr_ok \in BOOLEAN : ImportLog(ptr_ok)

ImportHashBlake3Call ==
    \E out_len \in {HASH_LEN, HASH_LEN + 1}, in_ok \in BOOLEAN, out_ok \in BOOLEAN :
        ImportHashBlake3(out_len, in_ok, out_ok)

ImportVerifyEd25519Call ==
    \E ptrs_ok \in BOOLEAN, lens_ok \in BOOLEAN : ImportVerifyEd25519(ptrs_ok, lens_ok)

ImportGasRemainingCall == \E out_ok \in BOOLEAN : ImportGasRemaining(out_ok)

ImportGetContextCall == \E out_ok \in BOOLEAN : ImportGetContext(out_ok)

NextImport ==
    \/ ImportStateGetCall \/ ImportStateSetCall \/ ImportStateDeleteCall
    \/ ImportEmitEventCall \/ ImportLogCall \/ ImportHashBlake3Call
    \/ ImportVerifyEd25519Call \/ ImportGasRemainingCall \/ ImportHostFree
    \/ ImportGetContextCall

SpecImport == InitImport /\ [][NextImport]_vars

\* ------------------------------------------------------------------------
\* The two hosts side by side: the same HostInterface calls are made on a
\* MockHost (host.mock) and on a WasmHostBridge (host.bridge) over the sandbox
\* HostState (hs), built for the same committed state and limits
\* ------------------------------------------------------------------------
MockEnv == [mode |-> "mock", store |-> committed, host |-> host.mock,
            hs |-> HostStateNew(NoLimits)]

BridgeEnv == [mode |-> "sandbox", store |-> committed, host |-> host.bridge, hs |-> hs]

PairKeys == {balance_key(1), TooLongKey}

PairValues == {<<>>, <<1>>}

PairTxs == {decode_transaction(Transfer(1, 0, 2, 1)).tx}

InitPair ==
    /\ mode = "both"
    /\ overflow_checks = FALSE
    /\ committed \in HostStores
    /\ pc = "pair_calls"
    /\ request \in {Request(API_VERSION, 1, 1, ZERO_HASH, <<>>, l) : l \in HostLimits}
    /\ host = [mock |-> HostNew(ExecutionContext_from_request(request)),
               bridge |-> HostNew(ExecutionContext_from_request(request))]
    /\ hs = HostStateFetched(request.limits)
    /\ idx = 0
    /\ receipts = <<>>
    /\ block_gas_exceeded = FALSE
    /\ outcome = NoOutcome
    /\ run = 0
    /\ first = EmptyMap

\* The call returned m on the MockHost and s on the bridge
PairReturns(op, m, s) ==
    /\ host' = [mock |-> m.e.host, bridge |-> s.e.host]
    /\ hs' = s.e.hs
    /\ outcome' = [kind |-> op, response |-> NoResponse, code |-> m.code, val |-> m.val,
                   bridge_code |-> s.code, bridge_val |-> s.val]
    /\ idx' = idx + 1
    /\ UNCHANGED <<mode, overflow_checks, committed, request, pc, receipts,
                   block_gas_exceeded, run, first>>

PairGet(k) ==
    /\ pc = "pair_calls"
    /\ idx < MaxPairCalls
    /\ PairReturns("state_get", StateGet(MockEnv, k), StateGet(BridgeEnv, k))

PairSet(k, value) ==
    /\ pc = "pair_calls"
    /\ idx < MaxPairCalls
    /\ PairReturns("state_set", StateSet(MockEnv, k, value), StateSet(BridgeEnv, k, value))

PairDelete(k) ==
    /\ pc = "pair_calls"
    /\ idx < MaxPairCalls
    /\ PairReturns("state_delete", StateDelete(MockEnv, k), StateDelete(BridgeEnv, k))

PairEmit ==
    /\ pc = "pair_calls"
    /\ idx < MaxPairCalls
    /\ PairReturns("emit_event", EmitEvent(MockEnv, HostEvent), EmitEvent(BridgeEnv, HostEvent))

PairVerify(tx) ==
    /\ pc = "pair_calls"
    /\ idx < MaxPairCalls
    /\ PairReturns("verify_ed25519", VerifyEd25519(MockEnv, tx), VerifyEd25519(BridgeEnv, tx))

PairGetCall == \E k \in PairKeys : PairGet(k)

PairSetCall == \E k \in PairKeys, value \in PairValues : PairSet(k, value)

PairDeleteCall == \E k \in PairKeys : PairDelete(k)

PairVerifyCall == \E tx \in PairTxs : PairVerify(tx)

NextPair == PairGetCall \/ PairSetCall \/ PairDeleteCall \/ PairEmit \/ PairVerifyCall

SpecPair == InitPair /\ [][NextPair]_vars

\* ------------------------------------------------------------------------
\* SparseMerkleTree on its own: host.entries is the BTreeMap of the tree,
\* kept as the sequence of its (key, value) pairs in iteration order
\* ------------------------------------------------------------------------
EntryIndex(t, k) == {i \in 1..Len(t) : t[i][1] = k}

\* Variant of BTreeMap::insert that keeps arrival order for new keys
BTreeMap_insert_Append(t, k, value) ==
    IF EntryIndex(t, k) # {}
    THEN [i \in 1..Len(t) |-> IF t[i][1] = k THEN <<k, value>> ELSE t[i]]
    ELSE Append(t, <<k, value>>)

BTreeMap_insert(t, k, value) ==
    IF EntryIndex(t, k) # {}
    THEN [i \in 1..Len(t) |-> IF t[i][1] = k THEN <<k, value>> ELSE t[i]]
    ELSE SelectSeq(t, LAMBDA p : p[1] < k) \o <<<<k, value>>>>
           \o SelectSeq(t, LAMBDA p : p[1] > k)

BTreeMap_remove(t, k) == SelectSeq(t, LAMBDA p : p[1] # k)

SparseMerkleTree_insert(t, k, value) == BTreeMap_insert(t, k, value)

SparseMerkleTree_delete(t, k) == BTreeMap_remove(t, k)

SparseMerkleTree_root(t) ==
    IF Len(t) = 0 THEN ZERO_HASH
    ELSE compute_root_from_leaves([i \in 1..Len(t) |-> hash_leaf(t[i][1], t[i][2])])

RECURSIVE ApplyWritesFrom(_, _, _)
ApplyWritesFrom(t, writes, ks) ==
    IF Len(ks) = 0 THEN t
    ELSE ApplyWritesFrom(IF writes[Head(ks)].del
                         THEN BTreeMap_remove(t, Head(ks))
                         ELSE BTreeMap_insert(t, Head(ks), writes[Head(ks)].val),
                         writes, Tail(ks))

SparseMerkleTree_apply_writes(t, writes) ==
    ApplyWritesFrom(t, writes, SortedKeys(DOMAIN writes))

\* One level of compute_proof_path: index is 0-based, sibling_idx likewise
PushSibling(level, index, sibling_idx, rest) ==
    IF sibling_idx < Len(level)
    THEN [siblings |-> <<level[sibling_idx + 1]>> \o rest.siblings,
          path_bits |-> <<index % 2 = 0>> \o rest.path_bits]
    ELSE rest

RECURSIVE compute_proof_path(_, _)
compute_proof_path(leaves, index) ==
    IF Len(leaves) <= 1 THEN [siblings |-> <<>>, path_bits |-> <<>>]
    ELSE PushSibling(leaves, index, IF index % 2 = 0 THEN index + 1 ELSE index - 1,
                     compute_proof_path(NextLevel(leaves), index \div 2))

MerkleProof(path, leaf_hash) ==
    [siblings |-> path.siblings, path_bits |-> path.path_bits, leaf_hash |-> leaf_hash]

ProveAt(t, target_idx) ==
    IF target_idx = {}
    THEN MerkleProof([siblings |-> <<>>, path_bits |-> <<>>], None)
    ELSE MerkleProof(compute_proof_path([i \in 1..Len(t) |-> hash_leaf(t[i][1], t[i][2])],
                                        (CHOOSE i \in target_idx : TRUE) - 1),
                     Some(hash_leaf(t[CHOOSE i \in target_idx : TRUE][1],
                                    t[CHOOSE i \in target_idx : TRUE][2])))

prove(t, k) ==
    IF Len(t) = 0 THEN MerkleProof([siblings |-> <<>>, path_bits |-> <<>>], None)
    ELSE ProveAt(t, EntryIndex(t, k))

RECURSIVE WalkUp(_, _, _)
WalkUp(current, siblings, path_bits) ==
    IF Len(siblings) = 0 \/ Len(path_bits) = 0 THEN current
    ELSE WalkUp(IF Head(path_bits) THEN hash_internal(current, Head(siblings))
                ELSE hash_internal(Head(siblings), current),
                Tail(siblings), Tail(path_bits))

\* Variant of verify_proof that trusts the leaf hash of the proof
verify_proof_NoLeafCheck(root, proof, k, value) ==
    IF proof.leaf_hash.some /\ value.some
    THEN WalkUp(proof.leaf_hash.val, proof.siblings, proof.path_bits) = root
    ELSE IF ~proof.leaf_hash.some /\ ~value.some
    THEN Len(proof.siblings) = 0 /\ root = ZERO_HASH
    ELSE FALSE

verify_proof(root, proof, k, value) ==
    IF proof.leaf_hash.some /\ value.some
    THEN /\ proof.leaf_hash.val = hash_leaf(k, value.val)
         /\ WalkUp(proof.leaf_hash.val, proof.siblings, proof.path_bits) = root
    ELSE IF ~proof.leaf_hash.some /\ ~value.some
    THEN Len(proof.siblings) = 0 /\ root = ZERO_HASH
    ELSE FALSE

TreeKeys == {balance_key(1), nonce_key(1), balance_key(2), nonce_key(2)}

TreeValues == {<<>>, <<1>>}

TreeBatches ==
    {(balance_key(1) :> [del |-> FALSE, val |-> <<1>>]) @@ (nonce_key(1) :> [del |-> TRUE, val |-> <<>>]),
     (balance_key(2) :> [del |-> TRUE, val |-> <<>>]) @@ (nonce_key(1) :> [del |-> FALSE, val |-> <<>>])}

InitTree ==
    /\ mode = "tree"
    /\ overflow_checks = FALSE
    /\ committed = EmptyMap
    /\ pc = "tree"
    /\ request = Request(API_VERSION, 1, 1, ZERO_HASH, <<>>, NoLimits)
    /\ host = [entries |-> <<>>]
    /\ hs = EmptyMap
    /\ idx = 0
    /\ receipts = <<>>
    /\ block_gas_exceeded = FALSE
    /\ outcome = NoOutcome
    /\ run = 0
    /\ first = EmptyMap

TreeOp(op, k, t, result) ==
    /\ host' = [entries |-> t]
    /\ outcome' = [kind |-> op, response |-> NoResponse, code |-> 0, key |-> k, val |-> result]
    /\ idx' = idx + 1
    /\ UNCHANGED <<mode, overflow_checks, committed, request, pc, hs, receipts,
                   block_gas_exceeded, run, first>>

TreeInsert(k, value) ==
    /\ pc = "tree"
    /\ idx < MaxTreeOps
    /\ TreeOp("insert", k, SparseMerkleTree_insert(host.entries, k, value), value)

TreeDelete(k) ==
    /\ pc = "tree"
    /\ idx < MaxTreeOps
    /\ TreeOp("delete", k, SparseMerkleTree_delete(host.entries, k), <<>>)

TreeApplyWrites(writes) ==
    /\ pc = "tree"
    /\ idx < MaxTreeOps
    /\ TreeOp("apply_writes", 0, SparseMerkleTree_apply_writes(host.entries, writes), <<>>)

TreeProve(k) ==
    /\ pc = "tree"
    /\ idx < MaxTreeOps
    /\ TreeOp("prove", k, host.entries, prove(host.entries, k))

TreeInsertCall == \E k \in TreeKeys, value \in TreeValues : TreeInsert(k, value)

TreeDeleteCall == \E k \in TreeKeys : TreeDelete(k)

TreeApplyWritesCall == \E writes \in TreeBatches : TreeApplyWrites(writes)

TreeProveCall == \E k \in TreeKeys : TreeProve(k)

NextTree == TreeInsertCall \/ TreeDeleteCall \/ TreeApplyWritesCall \/ TreeProveCall

SpecTree == InitTree /\ [][NextTree]_vars

\* ------------------------------------------------------------------------
\* The byte-level codec (codec.rs). A struct is written and read field by
\* field; a field is described by its wire type, a vector by the fields of
\* its items. Byte strings are sequences of bytes, a String is its UTF-8
\* bytes, a hash is HASH_LEN bytes.
\* ------------------------------------------------------------------------
Field(t) == [t |-> t, sub |-> <<>>]

VecOf(sub) == [t |-> "vec", sub |-> sub]

LeBytes(v, n) == [i \in 1..n |-> (v \div Pow(ByteBase, i - 1)) % ByteBase]

RECURSIVE LeNumber(_)
LeNumber(bytes) ==
    IF Len(bytes) = 0 THEN 0 ELSE Head(bytes) + ByteBase * LeNumber(Tail(bytes))

\* usize as u32
as_u32(n) == n % (U32_MAX + 1)

write_u8(v) == <<v>>

write_u32(v) == LeBytes(v, U32_BYTES)

write_u64(v) == LeBytes(v, U64_BYTES)

write_bool(v) == <<IF v THEN 1 ELSE 0>>

write_hash(h) == h

write_optional_hash(h) == IF h.some THEN <<1>> \o h.val ELSE <<0>>

write_var_bytes(data) == write_u32(as_u32(Len(data))) \o data

write_string(s) == write_var_bytes(s)

RECURSIVE WriteFields(_, _)
RECURSIVE WriteItems(_, _)
RECURSIVE WriteValue(_, _)
WriteValue(fld, v) ==
    CASE fld.t = "u32" -> write_u32(v)
      [] fld.t = "u64" -> write_u64(v)
      [] fld.t = "status" -> write_u8(StatusByte(v))
      [] fld.t = "bool" -> write_bool(v)
      [] fld.t = "hash" -> write_hash(v)
      [] fld.t = "optional_hash" -> write_optional_hash(v)
      [] fld.t = "var_bytes" -> write_var_bytes(v)
      [] fld.t = "string" -> write_string(v)
      [] fld.t = "vec" -> write_u32(as_u32(Len(v))) \o WriteItems(fld.sub, v)

WriteItems(sub, items) ==
    IF Len(items) = 0 THEN <<>>
    ELSE WriteFields(sub, Head(items)) \o WriteItems(sub, Tail(items))

WriteFields(schema, values) ==
    IF Len(schema) = 0 THEN <<>>
    ELSE WriteValue(Head(schema), Head(values)) \o WriteFields(Tail(schema), Tail(values))

\* Reader: a read at position pos gives the value and the new position, or
\* a SerializationError
ReadOk(pos, v) == [ok |-> TRUE, pos |-> pos, v |-> v]

ReadErr == [ok |-> FALSE, pos |-> 0, v |-> <<>>]

Convert(res, Op(_)) == IF res.ok THEN ReadOk(res.pos, Op(res.v)) ELSE ReadErr

Check(res, Valid(_)) == IF res.ok /\ Valid(res.v) THEN res ELSE ReadErr

Reader_read_bytes(data, pos, n) ==
    IF pos + n > Len(data) THEN ReadErr
    ELSE ReadOk(pos + n, SubSeq(data, pos + 1, pos + n))

read_u8(data, pos) == Convert(Reader_read_bytes(data, pos, 1), LAMBDA b : b[1])

read_u32(data, pos) == Convert(Reader_read_bytes(data, pos, U32_BYTES), LeNumber)

read_u64(data, pos) == Convert(Reader_read_bytes(data, pos, U64_BYTES), LeNumber)

read_bool(data, pos) ==
    Convert(Check(read_u8(data, pos), LAMBDA b : b \in {0, 1}), LAMBDA b : b = 1)

read_hash(data, pos) == Reader_read_bytes(data, pos, HASH_LEN)

OptionalHashAfter(data, flag) ==
    IF ~flag.ok THEN ReadErr
    ELSE IF flag.v = 0 THEN ReadOk(flag.pos, None)
    ELSE IF flag.v = 1 THEN Convert(read_hash(data, flag.pos), Some)
    ELSE ReadErr

read_optional_hash(data, pos) == OptionalHashAfter(data, read_u8(data, pos))

VarBytesAfter(data, len) ==
    IF len.ok THEN Reader_read_bytes(data, len.pos, len.v) ELSE ReadErr

read_var_bytes(data, pos) == VarBytesAfter(data, read_u32(data, pos))

\* String::from_utf8 accepts: every byte of the model alphabet is ASCII
from_utf8(bytes) == \A i \in 1..Len(bytes) : bytes[i] < 128

read_string(data, pos) == Check(read_var_bytes(data, pos), from_utf8)

\* ExecutionStatus::from_u8
read_status(data, pos) ==
    Convert(Check(read_u8(data, pos), LAMBDA b : b \in 0..3), StatusFromByte)

PrependValue(v, rest) == IF rest.ok THEN ReadOk(rest.pos, <<v>> \o rest.v) ELSE ReadErr

RECURSIVE ReadFields(_, _, _)
RECURSIVE ReadItems(_, _, _, _)
RECURSIVE ReadValue(_, _, _)
ItemsAfter(data, count, sub) ==
    IF count.ok THEN ReadItems(data, count.pos, count.v, sub) ELSE ReadErr

ReadValue(data, pos, fld) ==
    CASE fld.t = "u32" -> read_u32(data, pos)
      [] fld.t = "u64" -> read_u64(data, pos)
      [] fld.t = "status" -> read_status(data, pos)
      [] fld.t = "bool" -> read_bool(data, pos)
      [] fld.t = "hash" -> read_hash(data, pos)
      [] fld.t = "optional_hash" -> read_optional_hash(data, pos)
      [] fld.t = "var_bytes" -> read_var_bytes(data, pos)
      [] fld.t = "string" -> read_string(data, pos)
      [] fld.t = "vec" -> ItemsAfter(data, read_u32(data, pos), fld.sub)

NextItems(data, item, count, sub) ==
    IF item.ok THEN PrependValue(item.v, ReadItems(data, item.pos, count - 1, sub))
    ELSE ReadErr

ReadItems(data, pos, count, sub) ==
    IF count = 0 THEN ReadOk(pos, <<>>)
    ELSE NextItems(data, ReadFields(data, pos, sub), count, sub)

NextFields(data, value, schema) ==
    IF value.ok THEN PrependValue(value.v, ReadFields(data, value.pos, schema))
    ELSE ReadErr

ReadFields(data, pos, schema) ==
    IF Len(schema) = 0 THEN ReadOk(pos, <<>>)
    ELSE NextFields(data, ReadValue(data, pos, Head(schema)), Tail(schema))

Decoded(res, Build(_)) ==
    IF res.ok THEN [ok |-> TRUE, val |-> Build(res.v)] ELSE [ok |-> FALSE, val |-> <<>>]

\* ExecutionRequest
ExecutionRequestFields ==
    <<Field("u32"), Field("var_bytes"), Field("u64"), Field("u64"), Field("hash"),
      Field("hash"), VecOf(<<Field("var_bytes")>>), Field("u64"), Field("u32"),
      Field("u32"), Field("optional_hash")>>

encode_execution_request(req) ==
    WriteFields(ExecutionRequestFields,
                <<req.api_version, req.chain_id, req.block_height, req.block_time,
                  req.block_hash, req.prev_state_root,
                  [i \in 1..Len(req.transactions) |-> <<req.transactions[i]>>],
                  req.limits.gas_limit, req.limits.max_events, req.limits.max_write_bytes,
                  req.execution_seed>>)

ExecutionRequestOf(v) ==
    [api_version |-> v[1], chain_id |-> v[2], block_height |-> v[3], block_time |-> v[4],
     block_hash |-> v[5], prev_state_root |-> v[6],
     transactions |-> [i \in 1..Len(v[7]) |-> v[7][i][1]],
     limits |-> [gas_limit |-> v[8], max_events |-> v[9], max_write_bytes |-> v[10]],
     execution_seed |-> v[11]]

decode_execution_request(data) ==
    Decoded(ReadFields(data, 0, ExecutionRequestFields), ExecutionRequestOf)

\* Receipt, Event and LogLine inside a response
ReceiptFields ==
    <<Field("u32"), Field("bool"), Field("u64"), Field("u32"), Field("var_bytes")>>

EventFields ==
    <<Field("u32"), Field("string"), VecOf(<<Field("string"), Field("var_bytes")>>)>>

LogLineFields == <<Field("u32"), Field("string")>>

EventValues(ev) ==
    <<ev.tx_index, ev.event_type,
      [i \in 1..Len(ev.attributes) |-> <<ev.attributes[i].key, ev.attributes[i].value>>]>>

EventOf(v) ==
    [tx_index |-> v[1], event_type |-> v[2],
     attributes |-> [i \in 1..Len(v[3]) |-> [key |-> v[3][i][1], value |-> v[3][i][2]]]]

encode_single_event(ev) == WriteFields(EventFields, EventValues(ev))

decode_single_event(data) == Decoded(ReadFields(data, 0, EventFields), EventOf)

\* ExecutionResponse, byte by byte
ExecutionResponseFields ==
    <<Field("u32"), Field("status"), Field("hash"), Field("u64"), VecOf(ReceiptFields),
      VecOf(EventFields), VecOf(LogLineFields)>>

codec_encode_execution_response(resp) ==
    WriteFields(ExecutionResponseFields,
                <<resp.api_version, resp.status, resp.new_state_root, resp.gas_used,
                  [i \in 1..Len(resp.receipts) |->
                     <<resp.receipts[i].tx_index, resp.receipts[i].success,
                       resp.receipts[i].gas_used, resp.receipts[i].result_code,
                       resp.receipts[i].return_data>>],
                  [i \in 1..Len(resp.events) |-> EventValues(resp.events[i])],
                  [i \in 1..Len(resp.logs) |-> <<resp.logs[i].level, resp.logs[i].message>>]>>)

ExecutionResponseOf(v) ==
    [api_version |-> v[1], status |-> v[2], new_state_root |-> v[3], gas_used |-> v[4],
     receipts |-> [i \in 1..Len(v[5]) |->
                     [tx_index |-> v[5][i][1], success |-> v[5][i][2],
                      gas_used |-> v[5][i][3], result_code |-> v[5][i][4],
                      return_data |-> v[5][i][5]]],
     events |-> [i \in 1..Len(v[6]) |-> EventOf(v[6][i])],
     logs |-> [i \in 1..Len(v[7]) |-> [level |-> v[7][i][1], message |-> v[7][i][2]]]]

codec_decode_execution_response(data) ==
    Decoded(ReadFields(data, 0, ExecutionResponseFields), ExecutionResponseOf)

\* ExecutionContext
ExecutionContextFields ==
    <<Field("var_bytes"), Field("u64"), Field("u64"), Field("hash"), Field("u64"),
      Field("u32"), Field("u32"), Field("u32"), Field("optional_hash")>>

encode_execution_context(ctx) ==
    WriteFields(ExecutionContextFields,
                <<ctx.chain_id, ctx.block_height, ctx.block_time, ctx.block_hash,
                  ctx.gas_limit, ctx.max_events, ctx.max_write_bytes, ctx.api_version,
                  ctx.execution_seed>>)

ExecutionContextOf(v) ==
    [chain_id |-> v[1], block_height |-> v[2], block_time |-> v[3], block_hash |-> v[4],
     gas_limit |-> v[5], max_events |-> v[6], max_write_bytes |-> v[7],
     api_version |-> v[8], execution_seed |-> v[9]]

decode_execution_context(data) ==
    Decoded(ReadFields(data, 0, ExecutionContextFields), ExecutionContextOf)

\* Values to encode
CodecHashes == {[i \in 1..HASH_LEN |-> 0], [i \in 1..HASH_LEN |-> 1]}

CodecBytes == {<<>>, <<1>>, [i \in 1..(U32_MAX + 1) |-> 0]}

CodecStrings == {<<>>, <<1, 0>>}

CodecSeeds == {None} \cup {Some(h) : h \in CodecHashes}

CodecRequests ==
    {[api_version |-> API_VERSION, chain_id |-> c, block_height |-> 1, block_time |-> t,
      block_hash |-> h, prev_state_root |-> h, transactions |-> txs,
      limits |-> [gas_limit |-> U64_MAX, max_events |-> U32_MAX, max_write_bytes |-> 0],
      execution_seed |-> s] :
        c \in CodecBytes, t \in {0, U64_MAX}, h \in CodecHashes, s \in CodecSeeds,
        txs \in {<<>>, <<<<1>>>>, <<<<>>, <<1, 0, 1>>>>}}

CodecContexts ==
    {[chain_id |-> c, block_height |-> 1, block_time |-> U64_MAX, block_hash |-> h,
      gas_limit |-> g, max_events |-> U32_MAX, max_write_bytes |-> 1,
      api_version |-> API_VERSION, execution_seed |-> s] :
        c \in CodecBytes, h \in CodecHashes, g \in {0, U64_MAX}, s \in CodecSeeds}

CodecAttributes ==
    {<<>>} \cup {<<[key |-> k, value |-> b]>> : k \in CodecStrings, b \in CodecBytes}
           \cup {<<[key |-> <<1, 0>>, value |-> <<>>], [key |-> <<>>, value |-> <<1>>]>>}

CodecEvents ==
    {[tx_index |-> i, event_type |-> t, attributes |-> a] :
        i \in {0, U32_MAX}, t \in CodecStrings, a \in CodecAttributes}

CodecReceipts ==
    {<<>>,
     <<[tx_index |-> 0, success |-> TRUE, gas_used |-> U64_MAX, result_code |-> 0,
        return_data |-> <<>>]>>,
     <<[tx_index |-> 0, success |-> TRUE, gas_used |-> 1, result_code |-> 0,
        return_data |-> <<>>],
       [tx_index |-> 1, success |-> FALSE, gas_used |-> 0, result_code |-> U32_MAX,
        return_data |-> <<1, 1>>]>>}

CodecResponses ==
    {[api_version |-> API_VERSION, status |-> st, new_state_root |-> h, gas_used |-> 1,
      receipts |-> r, events |-> e, logs |-> l] :
        st \in {"Ok", "InvalidBlock", "ExecutionError", "OutOfGas"}, h \in CodecHashes,
        r \in CodecReceipts,
        e \in {<<>>, <<[tx_index |-> 0, event_type |-> <<1, 0>>,
                        attributes |-> <<[key |-> <<1>>, value |-> <<0, 1>>]>>]>>},
        l \in {<<>>, <<[level |-> 1, message |-> <<1, 0>>]>>}}

InitCodec ==
    /\ mode = "codec"
    /\ overflow_checks = FALSE
    /\ committed = EmptyMap
    /\ pc = "codec"
    /\ request = Request(API_VERSION, 1, 1, ZERO_HASH, <<>>, NoLimits)
    /\ host = EmptyMap
    /\ hs = EmptyMap
    /\ idx = 0
    /\ receipts = <<>>
    /\ block_gas_exceeded = FALSE
    /\ outcome = NoOutcome
    /\ run = 0
    /\ first = EmptyMap

\* x was encoded and the bytes decoded again
RoundTrip(op, x, decoded) ==
    /\ outcome' = [kind |-> op, response |-> NoResponse, code |-> 0, x |-> x, val |-> decoded]
    /\ idx' = idx + 1
    /\ UNCHANGED <<mode, overflow_checks, committed, request, pc, host, hs, receipts,
                   block_gas_exceeded, run, first>>

RoundTripRequest(x) ==
    /\ pc = "codec"
    /\ idx < MaxCodecCalls
    /\ RoundTrip("request", x, decode_execution_request(encode_execution_request(x)))

RoundTripResponse(x) ==
    /\ pc = "codec"
    /\ idx < MaxCodecCalls
    /\ RoundTrip("response", x,
                 codec_decode_execution_response(codec_encode_execution_response(x)))

RoundTripContext(x) ==
    /\ pc = "codec"
    /\ idx < MaxCodecCalls
    /\ RoundTrip("context", x, decode_execution_context(encode_execution_context(x)))

RoundTripEvent(x) ==
    /\ pc = "codec"
    /\ idx < MaxCodecCalls
    /\ RoundTrip("event", x, decode_single_event(encode_single_event(x)))

RoundTripRequestCall == \E x \in CodecRequests : RoundTripRequest(x)

RoundTripResponseCall == \E x \in CodecResponses : RoundTripResponse(x)

RoundTripContextCall == \E x \in CodecContexts : RoundTripContext(x)

RoundTripEventCall == \E x \in CodecEvents : RoundTripEvent(x)

NextCodec ==
    RoundTripRequestCall \/ RoundTripResponseCall \/ RoundTripContextCall
        \/ RoundTripEventCall

SpecCodec == InitCodec /\ [][NextCodec]_vars

\* ------------------------------------------------------------------------
\* Decoding received bytes and encoding the result again. The decoders read
\* the fields in order and return; Reader::remaining is never consulted.
\* ------------------------------------------------------------------------
\* What may follow an encoding on the wire
Trailers == {<<>>, <<0>>}

RequestWires ==
    {encode_execution_request(x) \o t :
        x \in {y \in CodecRequests : y.block_time = 0 /\ y.block_hash[1] = 0}, t \in Trailers}

ResponseWires ==
    {codec_encode_execution_response(x) \o t :
        x \in {y \in CodecResponses : y.new_state_root[1] = 0}, t \in Trailers}

ContextWires ==
    {encode_execution_context(x) \o t :
        x \in {y \in CodecContexts : y.block_hash[1] = 0}, t \in Trailers}

EventWires ==
    {encode_single_event(x) \o t : x \in {y \in CodecEvents : y.tx_index = 0}, t \in Trailers}

InitDecode ==
    /\ mode = "decode"
    /\ overflow_checks = FALSE
    /\ committed = EmptyMap
    /\ pc = "decode"
    /\ request = Request(API_VERSION, 1, 1, ZERO_HASH, <<>>, NoLimits)
    /\ host = EmptyMap
    /\ hs = EmptyMap
    /\ idx = 0
    /\ receipts = <<>>
    /\ block_gas_exceeded = FALSE
    /\ outcome = NoOutcome
    /\ run = 0
    /\ first = EmptyMap

\* b was decoded and, when accepted, the value encoded again
Reencoded(op, b, decoded, bytes) ==
    /\ outcome' = [kind |-> op, response |-> NoResponse, code |-> 0, x |-> b,
                   val |-> decoded, bytes |-> bytes]
    /\ idx' = idx + 1
    /\ UNCHANGED <<mode, overflow_checks, committed, request, pc, host, hs, receipts,
                   block_gas_exceeded, run, first>>

ReencodeRequest(b) ==
    /\ pc = "decode"
    /\ idx < MaxDecodeCalls
    /\ Reencoded("request", b, decode_execution_request(b),
                 IF decode_execution_request(b).ok
                 THEN encode_execution_request(decode_execution_request(b).val) ELSE <<>>)

ReencodeResponse(b) ==
    /\ pc = "decode"
    /\ idx < MaxDecodeCalls
    /\ Reencoded("response", b, codec_decode_execution_response(b),
                 IF codec_decode_execution_response(b).ok
                 THEN codec_encode_execution_response(codec_decode_execution_response(b).val)
                 ELSE <<>>)

ReencodeContext(b) ==
    /\ pc = "decode"
    /\ idx < MaxDecodeCalls
    /\ Reencoded("context", b, decode_execution_context(b),
                 IF decode_execution_context(b).ok
                 THEN encode_execution_context(decode_execution_context(b).val) ELSE <<>>)

ReencodeEvent(b) ==
    /\ pc = "decode"
    /\ idx < MaxDecodeCalls
    /\ Reencoded("event", b, decode_single_event(b),
                 IF decode_single_event(b).ok
                 THEN encode_single_event(decode_single_event(b).val) ELSE <<>>)

ReencodeRequestCall == \E b \in RequestWires : ReencodeRequest(b)

ReencodeResponseCall == \E b \in ResponseWires : ReencodeResponse(b)

ReencodeContextCall == \E b \in ContextWires : ReencodeContext(b)

ReencodeEventCall == \E b \in EventWires : ReencodeEvent(b)

NextDecode ==
    ReencodeRequestCall \/ ReencodeResponseCall \/ ReencodeContextCall
        \/ ReencodeEventCall

SpecDecode == InitDecode /\ [][NextDecode]_vars

\* ------------------------------------------------------------------------
\* Who added which page: the memory of SpecMemory with the set of pages
\* (numbered from 0) that the host's own grow calls appended. A grow appends
\* at the current end of the memory, whoever asks for it.
\* ------------------------------------------------------------------------
AliasModules == {Memory(1, 300), Memory(17, DEFAULT_MAX_MEMORY_PAGES)}

AliasGrowDeltas == {1, 2}

AliasAllocSizes == {0, 8, PAGE_SIZE, HOST_ALLOC_PAGES * PAGE_SIZE}

\* The pages a successful grow by delta appends to mem
Appended(mem, delta) == mem.pages..(mem.pages + delta - 1)

InitAlias ==
    /\ mode = "sandbox"
    /\ overflow_checks = FALSE
    /\ committed = EmptyMap
    /\ pc = "alias_instantiate"
    /\ request = Request(API_VERSION, 1, 1, ZERO_HASH, <<>>,
                         Limits(DEFAULT_GAS_LIMIT, DEFAULT_MAX_EVENTS, DEFAULT_MAX_WRITE_BYTES))
    /\ host \in {[memory |-> m, host_pages |-> {}] : m \in AliasModules}
    /\ hs = [host_alloc |-> HostAllocator(0, 0)]
    /\ idx = 0
    /\ receipts = <<>>
    /\ block_gas_exceeded = FALSE
    /\ outcome = NoOutcome
    /\ run = 0
    /\ first = EmptyMap

\* Sandbox::execute_block, step 7
AliasInstantiate ==
    /\ pc = "alias_instantiate"
    /\ Memory_grow(host.memory, HOST_ALLOC_PAGES).ok
    /\ pc' = "alias_guest"
    /\ host' = [memory |-> Memory_grow(host.memory, HOST_ALLOC_PAGES).mem,
                host_pages |-> Appended(host.memory, HOST_ALLOC_PAGES)]
    /\ hs' = [host_alloc |-> HostAllocator(host.memory.pages * PAGE_SIZE,
                                           HOST_ALLOC_PAGES * PAGE_SIZE)]
    /\ outcome' = MemoryOp("instantiate", ERR_OK)
    /\ UNCHANGED <<mode, overflow_checks, committed, request, idx, receipts,
                   block_gas_exceeded, run, first>>

\* The guest executes memory.grow (its own allocator asking for pages)
AliasGuestGrow(delta) ==
    /\ pc = "alias_guest"
    /\ idx < MaxAliasOps
    /\ host' = [host EXCEPT !.memory = Memory_grow(host.memory, delta).mem]
    /\ outcome' = MemoryOp("memory.grow",
                           IF Memory_grow(host.memory, delta).ok THEN ERR_OK ELSE ERR_INTERNAL)
    /\ idx' = idx + 1
    /\ UNCHANGED <<mode, overflow_checks, committed, request, pc, hs, receipts,
                   block_gas_exceeded, run, first>>

\* A host allocation (alloc_and_write for the request buffer, or the
\* allocation inside the state_get and get_context imports): compute_alloc
\* gave c, the grow it asked for gave g; val is the reserved range
AliasAllocated(op, c, g) ==
    IF c.grow_pages > 0 /\ ~g.ok
    THEN /\ outcome' = MemoryOp(op, ERR_INTERNAL)
         /\ UNCHANGED <<host, hs>>
    ELSE /\ host' = [memory |-> IF c.grow_pages > 0 THEN g.mem ELSE host.memory,
                     host_pages |-> host.host_pages
                                      \cup (IF c.grow_pages > 0
                                            THEN Appended(host.memory, c.grow_pages) ELSE {})]
         /\ hs' = [hs EXCEPT !.host_alloc = commit(hs.host_alloc, c)]
         /\ outcome' = [kind |-> op, response |-> NoResponse, code |-> ERR_OK,
                        val |-> [ptr |-> c.ptr, len |-> c.bump - hs.host_alloc.bump]]

AliasAllocWrite(size) ==
    /\ pc = "alias_guest"
    /\ idx < MaxAliasOps
    /\ IF size = 0
       THEN /\ outcome' = [kind |-> "alloc_and_write", response |-> NoResponse, code |-> ERR_OK,
                           val |-> [ptr |-> 0, len |-> 0]]
            /\ UNCHANGED <<host, hs>>
       ELSE AliasAllocated("alloc_and_write", compute_alloc(hs.host_alloc, size),
                           Memory_grow(host.memory,
                                       compute_alloc(hs.host_alloc, size).grow_pages))
    /\ idx' = idx + 1
    /\ UNCHANGED <<mode, overflow_checks, committed, request, pc, receipts,
                   block_gas_exceeded, run, first>>

AliasLinkerAlloc(size) ==
    /\ pc = "alias_guest"
    /\ idx < MaxAliasOps
    /\ AliasAllocated("linker_alloc", compute_alloc(hs.host_alloc, size),
                      Memory_grow(host.memory, compute_alloc(hs.host_alloc, size).grow_pages))
    /\ idx' = idx + 1
    /\ UNCHANGED <<mode, overflow_checks, committed, request, pc, receipts,
                   block_gas_exceeded, run, first>>

AliasGuestGrowCall == \E delta \in AliasGrowDeltas : AliasGuestGrow(delta)

AliasAllocWriteCall == \E size \in AliasAllocSizes : AliasAllocWrite(size)

AliasLinkerAllocCall == \E size \in AliasAllocSizes : AliasLinkerAlloc(size)

NextAlias ==
    AliasInstantiate \/ AliasGuestGrowCall \/ AliasAllocWriteCall \/ AliasLinkerAllocCall

SpecAlias == InitAlias /\ [][NextAlias]_vars

\* ------------------------------------------------------------------------
\* Properties
\* ------------------------------------------------------------------------
Returned == pc = "done" /\ outcome.kind = "response"

RECURSIVE SumGas(_)
SumGas(rs) == IF Len(rs) = 0 THEN 0 ELSE rs[1].gas_used + SumGas(Tail(rs))

\* C1: whenever execute_block returns status OutOfGas, new_state_root is the
\* request's prev_state_root and the events list is empty, whatever earlier
\* transactions of the block succeeded, wrote or emitted.
C1_OutOfGasAtomic ==
    (Returned /\ outcome.response.status = "OutOfGas")
        => /\ outcome.response.new_state_root = request.prev_state_root
           /\ outcome.response.events = <<>>

\* An out-of-gas response to a block whose first transfer succeeded, wrote
\* state and emitted its event, on a previous root other than the zero hash
C1_Witness ==
    /\ Returned
    /\ outcome.response.status = "OutOfGas"
    /\ request.prev_state_root = SomeRoot
    /\ \E i \in 1..Len(outcome.response.receipts) : outcome.response.receipts[i].success
    /\ DOMAIN host.overlay.writes # {}
    /\ host.events # <<>>

\* C2: if a gas charge is refused while some transaction is processed,
\* execute_block stops after that transaction (its receipt is the last) and
\* returns status OutOfGas with new_state_root = prev_state_root, no events
\* and the receipts collected so far.
C2_RefusedChargeStopsBlock ==
    Returned =>
        \A i \in 1..Len(outcome.response.receipts) :
            outcome.response.receipts[i].result_code = ERR_OUT_OF_GAS
                => /\ i = Len(outcome.response.receipts)
                   /\ outcome.response.status = "OutOfGas"
                   /\ outcome.response.new_state_root = request.prev_state_root
                   /\ outcome.response.events = <<>>
                   /\ outcome.response.receipts = receipts

\* C3: execute_block is a function of (request, committed store): executing
\* a request again, on a fresh host or on a Sandbox that has executed other
\* blocks since, returns what its first execution returned, in every field.
C3_Deterministic ==
    (pc = "done" /\ request \in DOMAIN first) => outcome = first[request]

\* A Sandbox returns an Ok response with a successful transfer for a request
\* it has executed before, another request having been executed in between
C3_Witness ==
    /\ Returned
    /\ mode = "sandbox"
    /\ run >= 2
    /\ request \in DOMAIN first
    /\ Cardinality(DOMAIN first) >= 2
    /\ outcome.response.status = "Ok"
    /\ \E i \in 1..Len(outcome.response.receipts) : outcome.response.receipts[i].success

\* C4: in every response returned by execute_block, the gas_used of the
\* receipts sums to the gas_used of the response.
C4_GasAccountingSum ==
    Returned => SumGas(outcome.response.receipts) = outcome.response.gas_used

\* A response whose receipts mix a success, a failure that consumed gas and
\* an undecodable transaction
C4_Witness ==
    /\ Returned
    /\ \E i, j, k \in 1..Len(outcome.response.receipts) :
          /\ outcome.response.receipts[i].success
          /\ ~outcome.response.receipts[j].success
          /\ outcome.response.receipts[j].gas_used > 0
          /\ outcome.response.receipts[k].result_code = ERR_INVALID_ENCODING
          /\ outcome.response.receipts[k].gas_used = 0

\* What a read through the executor's host returns for an account
BalanceVia(h, a) == read_balance([mode |-> "mock", store |-> committed, host |-> h, hs |-> hs], a).v

NonceVia(h, a) == read_nonce([mode |-> "mock", store |-> committed, host |-> h, hs |-> hs], a).v

RECURSIVE SumBalances(_, _)
SumBalances(h, as) ==
    IF as = {} THEN 0
    ELSE LET a == CHOOSE x \in as : TRUE
         IN BalanceVia(h, a) + SumBalances(h, as \ {a})

OnlyTransfers ==
    \A i \in 1..Len(request.transactions) : decode_transaction(request.transactions[i]).ok

\* This step recorded the receipt of a transaction
ReceiptStep == pc = "loop" /\ Len(receipts') = Len(receipts) + 1

\* C5: for a block of Transfer transactions that returns status Ok, the
\* balances of all accounts in the post-state (overlay over committed state)
\* sum to what they sum to in the pre-state.
C5_Conservation ==
    (Returned /\ outcome.response.status = "Ok" /\ OnlyTransfers)
        => SumBalances(host, Accounts) = SumBalances([host EXCEPT !.overlay = OverlayNew], Accounts)

\* C6: a transaction that ends with a failed receipt leaves the overlay
\* exactly as it was before that transaction.
C6_FailedTxLeavesOverlay ==
    [][(ReceiptStep /\ ~receipts'[Len(receipts')].success) => host'.overlay = host.overlay]_vars

\* C7: after a transaction from sender a gets a successful receipt, the
\* nonce of a read through the host is a's nonce before the transaction
\* plus 1, and no other account's nonce has changed.
C7_NonceIncrement ==
    [][(ReceiptStep /\ receipts'[Len(receipts')].success)
         => LET a == request.transactions[idx + 1].sender
            IN /\ NonceVia(host', a) = NonceVia(host, a) + 1
               /\ \A b \in Accounts \ {a} : NonceVia(host', b) = NonceVia(host, b)]_vars

\* C8: a failed transaction does not abort the block: when the last receipt
\* of a response is a failed one, the status is Ok and there is exactly one
\* receipt per request transaction, receipts[i].tx_index = i.
C8_FailureDoesNotAbort ==
    (/\ Returned
     /\ Len(outcome.response.receipts) > 0
     /\ ~outcome.response.receipts[Len(outcome.response.receipts)].success)
        => /\ outcome.response.status = "Ok"
           /\ Len(outcome.response.receipts) = Len(request.transactions)
           /\ \A i \in 1..Len(outcome.response.receipts) :
                 outcome.response.receipts[i].tx_index = i - 1

\* The request fails one of the four checks of validation
BadRequest ==
    \/ request.api_version # API_VERSION
    \/ request.chain_id_len = 0
    \/ request.block_height = 0
    \/ request.limits.gas_limit = 0

C10_SandboxAlwaysResponds ==
    (mode = "sandbox" /\ pc = "done")
        => /\ outcome.kind = "response"
           /\ request.limits.gas_limit = 0 => outcome.response.status = "InvalidBlock"
           /\ (~BadRequest /\ request.transactions = <<>>) => outcome.response.status = "Ok"

\* The key-value set after the block: the committed entries the overlay
\* neither overwrote nor deleted, and the overlay's live entries
PostState(store, overlay) ==
    [k \in ((DOMAIN store) \ (DOMAIN overlay.writes))
             \cup {w \in DOMAIN overlay.writes : ~overlay.writes[w].del} |->
        IF k \in DOMAIN overlay.writes THEN overlay.writes[k].val ELSE store[k]]

\* C11: when a block with status Ok made at least one write, new_state_root
\* is the Merkle root of the full post-block key-value set: the committed
\* entries the block left alone plus the final overlay value of each
\* written key.
C11_RootCommitsPostState ==
    (Returned /\ outcome.response.status = "Ok" /\ DOMAIN host.overlay.writes # {})
        => outcome.response.new_state_root = SmtRoot(PostState(committed, host.overlay))

\* C12: a block that performs no overlay write returns new_state_root =
\* prev_state_root, for every prev_state_root.
C12_EmptyOverlayRootIdentity ==
    (Returned /\ DOMAIN host.overlay.writes = {})
        => outcome.response.new_state_root = request.prev_state_root

\* An Ok response to a block whose only transaction failed before writing,
\* on a previous root other than the zero hash
C12_Witness ==
    /\ Returned
    /\ outcome.response.status = "Ok"
    /\ request.prev_state_root = SomeRoot
    /\ Len(outcome.response.receipts) = 1
    /\ DOMAIN host.overlay.writes = {}
    /\ outcome.response.new_state_root = SomeRoot

\* The executor takes up the next transaction and its bytes do not decode
DecodeFailureStep ==
    /\ pc = "loop"
    /\ receipts' # receipts
    /\ ~decode_transaction(request.transactions[idx + 1]).ok

\* C13: a transaction whose bytes cannot be decoded produces
\* Receipt{tx_index = i, success = false, gas_used = 0, result_code = 2},
\* consumes no gas and causes no host call, and the block continues with the
\* next transaction.
C13_DecodeFailureReceipt ==
    [][DecodeFailureStep =>
          /\ receipts' = Append(receipts, Receipt(idx, FALSE, 0, ERR_INVALID_ENCODING))
          /\ host' = host
          /\ hs' = hs
          /\ idx' = idx + 1
          /\ pc' = "loop"
          /\ block_gas_exceeded' = FALSE]_vars

\* A block whose first transaction did not decode and whose second
\* transaction was processed successfully afterwards
C13_Witness ==
    /\ Returned
    /\ outcome.response.status = "Ok"
    /\ Len(outcome.response.receipts) = 2
    /\ ~decode_transaction(request.transactions[1]).ok
    /\ outcome.response.receipts[1] = Receipt(0, FALSE, 0, ERR_INVALID_ENCODING)
    /\ outcome.response.receipts[2].success

\* The executor takes up the next transaction, it decodes, the executor's
\* meter pays for the verification, and the signature does not verify under
\* the transaction's public_key
InvalidSignatureStep ==
    /\ pc = "loop"
    /\ receipts' # receipts
    /\ decode_transaction(request.transactions[idx + 1]).ok
    /\ MeterCharge(host.gas_meter, G_VERIFY_ED25519).ok
    /\ ~SignatureValid(decode_transaction(request.transactions[idx + 1]).tx)

\* C14: a transaction whose signature does not verify under its public_key
\* yields a receipt with success = false and result_code = 8, is rejected
\* before any state read or write (no balance or nonce change, no event),
\* and the block status remains Ok.
C14_InvalidSignatureRejected ==
    [][InvalidSignatureStep =>
          /\ receipts'[Len(receipts')].success = FALSE
          /\ receipts'[Len(receipts')].result_code = ERR_SIG_INVALID
          /\ host'.overlay = host.overlay
          /\ hs'.overlay = hs.overlay
          /\ host'.events = host.events
          /\ block_gas_exceeded' = FALSE]_vars

\* The transfer events of the successful receipts, in receipt order
RECURSIVE EventsOf(_, _, _)
EventsOf(rs, txs, i) ==
    IF i > Len(rs) THEN <<>>
    ELSE IF rs[i].success
         THEN <<TransferEvent(rs[i].tx_index, txs[i].sender, txs[i].to, txs[i].amount)>>
              \o EventsOf(rs, txs, i + 1)
    ELSE EventsOf(rs, txs, i + 1)

Successes(rs) == Cardinality({i \in 1..Len(rs) : rs[i].success})

\* C15: in a response with status Ok, the event limit not reached, the
\* events list is exactly one transfer event per successful transfer, in
\* transaction order, each with the tx_index of its transaction; a failed
\* transaction contributes no event.
C15_EventsMatchSuccesses ==
    (Returned /\ outcome.response.status = "Ok"
       /\ Successes(outcome.response.receipts) <= request.limits.max_events)
        => outcome.response.events
             = EventsOf(outcome.response.receipts, request.transactions, 1)

\* What a host read of k returns before and after a step
ReadNow(k) == StateGet(Env, k).val

ReadNext(k) == StateGet([mode |-> mode', store |-> committed', host |-> host', hs |-> hs'], k).val

\* A call that is no state_set and no state_delete on k
CallElsewhere(k) ==
    \/ \E j \in HostKeys : HostGet(j)
    \/ \E j \in HostKeys \ {k}, v \in HostValues : HostSet(j, v)
    \/ \E j \in HostKeys \ {k} : HostDelete(j)

\* C16: a host read of key k returns the value of the most recent state_set
\* on k in the current block, for every value including the empty byte
\* string, returns absent if the most recent operation on k was
\* state_delete, and falls back to the committed value only when the block
\* has not touched k, whatever the committed store holds for k.
C16_OverlayLayering ==
    [][\A k \in HostKeys :
          /\ (pc = "state_calls" /\ idx = 0) => ReadNow(k) = StoreGet(committed, k)
          /\ \A v \in HostValues :
                (HostSet(k, v) /\ outcome'.code = ERR_OK) => ReadNext(k) = Some(v)
          /\ (HostDelete(k) /\ outcome'.code = ERR_OK) => ReadNext(k) = None
          /\ CallElsewhere(k) => ReadNext(k) = ReadNow(k)]_vars

\* C17: no operation available during a block (state_get, state_set,
\* state_delete, emit_event, or execute_block as a whole, whatever its
\* status) changes the committed store; only a commit after the block does.
C17_CommittedReadOnly ==
    [][pc # "done" => committed' = committed]_vars

\* A block that wrote to the overlay has returned, or a session has made a
\* successful state_set, and the committed store does not hold the write
C17_Witness ==
    /\ \/ Returned /\ outcome.response.status = "Ok"
       \/ pc = "state_calls" /\ outcome.kind = "state_set" /\ outcome.code = ERR_OK
    /\ \E k \in DOMAIN host.overlay.writes :
          StoreGet(committed, k) # Some(host.overlay.writes[k].val)

\* The overlay state_set writes to: the MockHost's, or the HostState's
WriteOverlay == IF mode = "mock" THEN host.overlay ELSE hs.overlay

\* C18: a state_set call that returns an error (key-too-large,
\* value-too-large or write-limit) leaves the overlay exactly as it was
\* before the call; the write-limit check is made on the projected byte
\* total, and a rejected write adds or replaces no entry and does not change
\* total_write_bytes.
C18_RejectedWriteLeavesOverlay ==
    [][\A k \in HostKeys, v \in HostValues :
          HostSet(k, v) =>
            /\ outcome'.code \in {ERR_KEY_TOO_LARGE, ERR_VALUE_TOO_LARGE, ERR_WRITE_LIMIT}
                  => host'.overlay = host.overlay /\ hs'.overlay = hs.overlay
            /\ (KeyLen(k) <= MAX_KEY_LEN /\ Len(v) <= MAX_VALUE_LEN)
                  => (outcome'.code = ERR_WRITE_LIMIT
                        <=> OverlaySet(WriteOverlay, k, v).total_write_bytes
                              > request.limits.max_write_bytes)]_vars

\* C19: on both the in-process host and the sandbox host, state_get,
\* state_set and state_delete with a key longer than 256 bytes fail with
\* key-too-large (3), and state_set with a value longer than 65,536 bytes
\* fails with value-too-large (4), while a 256-byte key and a 65,536-byte
\* value are accepted.
C19_KeyAndValueLimits ==
    [][/\ (HostGet(TooLongKey) \/ HostDelete(TooLongKey))
            => outcome'.code = ERR_KEY_TOO_LARGE
       /\ \A v \in HostValues :
            /\ HostSet(TooLongKey, v) => outcome'.code = ERR_KEY_TOO_LARGE
            /\ \A k \in HostKeys \ {TooLongKey} :
                 (HostSet(k, v) /\ Len(v) > MAX_VALUE_LEN)
                    => outcome'.code = ERR_VALUE_TOO_LARGE
       /\ (/\ request.limits.max_write_bytes = DEFAULT_MAX_WRITE_BYTES
           /\ WriteOverlay.total_write_bytes = 0)
            => /\ HostSet(LongKey, BigValue) => outcome'.code = ERR_OK
               /\ HostGet(LongKey) => outcome'.code = ERR_OK
               /\ HostDelete(LongKey) => outcome'.code = ERR_OK]_vars

\* Events recorded by the host the calls go to
RecordedEvents == IF mode = "mock" THEN host.events ELSE hs.events

\* C20: over any sequence of emit_event calls in one block, the first
\* max_events events are accepted and every later call fails with
\* event-limit (6); the number of recorded events never exceeds max_events,
\* also after any number of rejected attempts.
C20_EventLimit ==
    [][HostEmit =>
         /\ pc' = "event_calls"
         /\ outcome'.code = (IF idx < request.limits.max_events
                               THEN ERR_OK ELSE ERR_EVENT_LIMIT)
         /\ Len(RecordedEvents') <= request.limits.max_events]_vars

\* What process_transaction_inner returns for the transaction at idx
InnerResult ==
    process_transaction_inner(idx, decode_transaction(request.transactions[idx + 1]).tx,
                              Env, overflow_checks)

\* A transaction whose steps all succeeded and whose transfer event the host
\* rejects
EmitRejected ==
    /\ pc = "loop"
    /\ ~block_gas_exceeded
    /\ idx < Len(request.transactions)
    /\ decode_transaction(request.transactions[idx + 1]).ok
    /\ InnerResult.ok
    /\ EmitEvent(InnerResult.e, InnerResult.events[1]).code # ERR_OK

\* C21: if emit_event rejects the transfer event of a transaction whose other
\* steps all succeeded, the transaction still succeeds: its receipt has
\* success = true and result_code = 0 and its balance and nonce writes stay
\* in the overlay.
C21_EmitFailureAbsorbed ==
    [][(EmitRejected /\ TxProcess) =>
         /\ Len(receipts') = Len(receipts) + 1
         /\ receipts'[Len(receipts')].success
         /\ receipts'[Len(receipts')].result_code = ERR_OK
         /\ host'.overlay = InnerResult.e.host.overlay
         /\ host'.overlay # host.overlay
         /\ host'.events = host.events]_vars

\* A receipt written for a transaction whose event was rejected by the
\* event limit
C21_Witness ==
    /\ pc = "loop"
    /\ request.limits.max_events = 0
    /\ Len(receipts) = 1
    /\ receipts[1].success
    /\ host.events = <<>>
    /\ nonce_key(1) \in DOMAIN host.overlay.writes

\* What a charge of n on meter m must do: code and m2 are what it returned
\* and the meter it left
ChargeLaw(m, n, code, m2) ==
    /\ (code = ERR_OK) <=> (m.consumed + n <= m.limit)
    /\ code = ERR_OK => m2 = [m EXCEPT !.consumed = m.consumed + n]
    /\ code # ERR_OK => code = ERR_OUT_OF_GAS /\ m2 = m
    /\ m2.consumed <= m2.limit
    /\ remaining(m2) = m2.limit - m2.consumed

\* C22: a gas charge of n (GasMeter::consume, HostGasMeter::charge) succeeds
\* exactly when consumed + n <= limit, evaluated without u64 overflow; a
\* refused charge returns out-of-gas and leaves consumed unchanged, so
\* consumed <= limit and remaining = limit - consumed hold after any sequence
\* of charges.
C22_ChargeWithinLimit ==
    [][\A n \in MeterAmounts :
         /\ GasConsume(n) => ChargeLaw(host.gas_meter, n, outcome'.code, host'.gas_meter)
         /\ HostCharge(n) => ChargeLaw(hs.gas_meter, n, outcome'.code, hs'.gas_meter)]_vars

\* A charge refused although the wrapped sum would fit the limit
C22_Witness ==
    /\ pc = "meter"
    /\ outcome.kind = "consume"
    /\ outcome.code = ERR_OUT_OF_GAS
    /\ host.gas_meter.consumed > 0
    /\ host.gas_meter.consumed + outcome.val > U64_MAX
    /\ (host.gas_meter.consumed + outcome.val) % (U64_MAX + 1) <= host.gas_meter.limit

\* The bytes the entries of an overlay account for: key_len + value_len for
\* a set entry, key_len for a tombstone
RECURSIVE SumEntryBytes(_, _)
SumEntryBytes(writes, ks) ==
    IF ks = {} THEN 0
    ELSE EntryBytes(CHOOSE k \in ks : TRUE, writes[CHOOSE k \in ks : TRUE])
         + SumEntryBytes(writes, ks \ {CHOOSE k \in ks : TRUE})

\* C23: after any sequence of overlay set, delete and clear operations
\* (including overwrites, set-after-delete and delete-after-set),
\* total_write_bytes equals the sum over the current entries of
\* key_len + value_len for a set entry and key_len for a tombstone.
C23_WriteBytesIsEntrySum ==
    pc = "overlay" =>
        host.overlay.total_write_bytes
            = SumEntryBytes(host.overlay.writes, DOMAIN host.overlay.writes)

\* A set over a tombstone, next to a tombstone written over a set entry
C23_Witness ==
    /\ pc = "overlay"
    /\ outcome.kind = "set"
    /\ outcome.val = "Deleted"
    /\ idx = MaxOverlayOps
    /\ \E k \in DOMAIN host.overlay.writes : host.overlay.writes[k].del
    /\ host.overlay.total_write_bytes > 0

\* A line the host must drop: too long, or beyond the line limit
MustDrop(msg) == msg.len > hs.max_log_line_len \/ Len(hs.logs) >= hs.max_log_lines

\* C24: the log host import is best-effort: it returns 0 for every call and
\* never makes the calling transaction fail, and lines beyond max_log_lines
\* or longer than max_log_line_len are dropped silently.
C24_LogBestEffort ==
    [][/\ \A msg \in LogMessages :
            LogImport(msg) =>
              /\ outcome'.code = ERR_OK
              /\ MustDrop(msg) => hs'.logs = hs.logs
       /\ \A len \in LogLens :
            HostLog(len) =>
              /\ outcome'.code = ERR_OK
              /\ (mode = "sandbox" /\ MustDrop(LogMessage(len, TRUE, TRUE)))
                    => hs'.logs = hs.logs]_vars

\* Pages a step asks for beyond the configured cap
PassesCap(delta) == host.memory.pages + delta > host.max_memory_pages

\* C25: guest linear memory never exceeds the configured max_memory_pages
\* (default 256 pages): any memory grow, whether requested by the guest or by
\* the host allocator, that would pass the cap fails, and a failing grow in
\* the execution protocol is reported as memory-error.
C25_MemoryCapped ==
    [][/\ pc \in {"instantiate", "guest"} => host'.memory.pages <= host.max_memory_pages
       /\ (MemInstantiate /\ PassesCap(HOST_ALLOC_PAGES)) => outcome' = MemoryError
       /\ \A size \in AllocSizes \ {0} :
            (HostAllocWrite(size) /\ compute_alloc(hs.host_alloc, size).grow_pages > 0
               /\ PassesCap(compute_alloc(hs.host_alloc, size).grow_pages))
              => outcome' = MemoryError
       /\ \A delta \in GrowDeltas :
            (GuestGrow(delta) /\ PassesCap(delta))
              => host'.memory = host.memory /\ outcome'.code # ERR_OK]_vars

\* C26: a host import call that returns bad-pointer (1) or out-of-gas (7)
\* has no effect: the overlay, event list, log buffer and allocator are
\* unchanged, and a bad-pointer call charges no gas, because pointer
\* validation precedes the gas charge and the gas charge precedes the
\* operation.
C26_RejectedImportHasNoEffect ==
    [][(pc = "imports" /\ outcome'.code \in {ERR_BAD_POINTER, ERR_OUT_OF_GAS}) =>
         /\ hs'.overlay = hs.overlay
         /\ hs'.events = hs.events
         /\ hs'.logs = hs.logs
         /\ hs'.host_alloc = hs.host_alloc
         /\ host'.memory = host.memory
         /\ outcome'.code = ERR_BAD_POINTER => hs'.gas_meter = hs.gas_meter]_vars

\* A write rejected for a bad pointer after an earlier write went through
C26_Witness ==
    /\ pc = "imports"
    /\ outcome.kind = "state_set"
    /\ outcome.code = ERR_BAD_POINTER
    /\ balance_key(1) \in DOMAIN hs.overlay.writes
    /\ hs.gas_meter.consumed > G_GET_CONTEXT + G_HOST_FREE

\* C27: the in-process host (MockHost) and the sandbox host (HostState behind
\* the linker and guest bridge) are interchangeable: for every sequence of
\* state_get, state_set, state_delete, emit_event and verify_ed25519 calls
\* with the same committed state and limits, each call returns the same
\* result or error code and the overlay and event list are the same
\* afterwards, so the executor produces the same receipts and root on both.
C27_HostsInterchangeable ==
    (pc = "pair_calls" /\ idx > 0) =>
        /\ outcome.code = outcome.bridge_code
        /\ outcome.val = outcome.bridge_val
        /\ host.mock.overlay = host.bridge.overlay
        /\ host.mock.overlay = hs.overlay
        /\ host.mock.events = host.bridge.events
        /\ host.mock.events = hs.events
        /\ compute_state_root(request.prev_state_root, host.mock.overlay)
             = compute_state_root(request.prev_state_root, host.bridge.overlay)

\* The key-value set a tree holds
EntriesMap(t) == [k \in {t[i][1] : i \in 1..Len(t)} |-> t[CHOOSE i \in 1..Len(t) : t[i][1] = k][2]]

\* C28: SparseMerkleTree::root depends only on the final key-value set: after
\* any sequence of insert, delete and apply_writes the root is the one value
\* determined by the set the tree holds, so two sequences that end with the
\* same set have the same root whatever their order and whatever they
\* overwrote or deleted on the way.
C28_RootDependsOnSetOnly ==
    pc = "tree" => SparseMerkleTree_root(host.entries) = SmtRoot(EntriesMap(host.entries))

\* Two live keys after four operations, the last one an insert of the smaller key
C28_Witness ==
    /\ pc = "tree"
    /\ outcome.kind = "insert"
    /\ Len(host.entries) = 2
    /\ outcome.key = host.entries[1][1]
    /\ idx = 4

\* C29: for a key present with value v the proof returned by prove verifies
\* against root() for (k, v) and for no other value; a proof of absence
\* verifies only against the empty tree, so on a non-empty tree no proof
\* verifies for an absent key.
C29_ProofsVerify ==
    (pc = "tree" /\ outcome.kind = "prove") =>
        /\ \A i \in EntryIndex(host.entries, outcome.key) :
             /\ verify_proof(SparseMerkleTree_root(host.entries), outcome.val, outcome.key,
                             Some(host.entries[i][2]))
             /\ \A other \in TreeValues \cup {<<1, 1>>} :
                  other # host.entries[i][2] =>
                    ~verify_proof(SparseMerkleTree_root(host.entries), outcome.val,
                                  outcome.key, Some(other))
             /\ ~verify_proof(SparseMerkleTree_root(host.entries), outcome.val, outcome.key, None)
        /\ EntryIndex(host.entries, outcome.key) = {} =>
             /\ verify_proof(SparseMerkleTree_root(host.entries), outcome.val, outcome.key, None)
                  <=> Len(host.entries) = 0
             /\ Len(host.entries) > 0 =>
                  \A k \in TreeKeys, value \in {None} \cup {Some(v) : v \in TreeValues} :
                    ~verify_proof(SparseMerkleTree_root(host.entries), prove(host.entries, k),
                                  outcome.key, value)

\* A proof for the last key of three, whose leaf is promoted at the first level
C29_Witness ==
    /\ pc = "tree"
    /\ outcome.kind = "prove"
    /\ Len(host.entries) = 3
    /\ outcome.key = host.entries[3][1]
    /\ Len(outcome.val.siblings) = 1

\* C30: for every ExecutionRequest, ExecutionResponse, ExecutionContext and
\* Event x, decoding the encoding of x succeeds and returns a value equal
\* to x.
C30_RoundTrip ==
    (pc = "codec" /\ idx > 0) => (outcome.val.ok /\ outcome.val.val = outcome.x)

\* C31: for every byte string b that a decoder (request, response, context,
\* event) accepts, encoding the decoded value gives back exactly b; no two
\* distinct byte strings decode to the same value.
C31_ReencodeIdentical ==
    (pc = "decode" /\ idx > 0 /\ outcome.val.ok) => outcome.bytes = outcome.x

\* C32: a transfer debits an account only if the transaction is signed by
\* that account's key: for every transaction with a successful receipt, the
\* public_key under which the signature verified equals the sender address
\* whose balance and nonce are changed.
C32_DebitOnlyBySigner ==
    \A i \in 1..Len(receipts) :
        receipts[i].success =>
            request.transactions[receipts[i].tx_index + 1].public_key
              = request.transactions[receipts[i].tx_index + 1].sender

\* C33: status OutOfGas is returned only if a gas charge was refused during
\* the block: when every transaction succeeds, also when their total cost
\* equals gas_limit exactly, the status is Ok and the block's writes are
\* reflected in new_state_root.
C33_OutOfGasOnlyWhenRefused ==
    (/\ pc = "done"
     /\ outcome.kind = "response"
     /\ validate_request(request)
     /\ Len(receipts) = Len(request.transactions)
     /\ \A i \in 1..Len(receipts) : receipts[i].success)
    => /\ outcome.response.status = "Ok"
       /\ outcome.response.new_state_root
            = compute_state_root(request.prev_state_root, host.overlay)

\* C34: in a sandboxed block the guest-side gas meter, which produces the
\* receipts and response.gas_used, agrees with the host's authoritative gas
\* meter: after every transaction both have consumed the same amount (and so
\* a host call is refused for gas only if the guest-side meter would refuse
\* it too).
C34_MetersAgree ==
    (mode = "sandbox" /\ pc \in {"loop", "done"} /\ Len(receipts) > 0)
    => host.gas_meter.consumed = hs.gas_meter.consumed

\* C35: host bump allocations never alias guest-owned memory: under any
\* interleaving of guest memory.grow calls with host allocations, every
\* host-allocated buffer lies entirely inside pages that were added by the
\* host's own grow calls.
C35_HostBuffersInHostPages ==
    (/\ pc = "alias_guest"
     /\ outcome.kind \in {"alloc_and_write", "linker_alloc"}
     /\ outcome.code = ERR_OK)
    => \A page \in (outcome.val.ptr \div PAGE_SIZE)
                     ..((outcome.val.ptr + outcome.val.len - 1) \div PAGE_SIZE) :
         page \in host.host_pages

\* C36: after any sequence of state_set and state_delete calls on a host,
\* successful or rejected, the overlay's total_write_bytes is at most
\* max_write_bytes.
C36_WriteBytesWithinBudget ==
    (pc = "state_calls" /\ outcome.kind \in {"state_set", "state_delete"})
    => WriteOverlay.total_write_bytes <= request.limits.max_write_bytes

\* The balance and the nonce of account a after the successful ones of the
\* first i receipts were applied one at a time to the committed state
RECURSIVE SequentialBalance(_, _)
SequentialBalance(a, i) ==
    IF i = 0 THEN BalanceVia([host EXCEPT !.overlay = OverlayNew], a)
    ELSE IF ~receipts[i].success THEN SequentialBalance(a, i - 1)
    ELSE SequentialBalance(a, i - 1)
           - (IF request.transactions[receipts[i].tx_index + 1].sender = a
              THEN request.transactions[receipts[i].tx_index + 1].amount ELSE 0)
           + (IF request.transactions[receipts[i].tx_index + 1].to = a
              THEN request.transactions[receipts[i].tx_index + 1].amount ELSE 0)

RECURSIVE SequentialNonce(_, _)
SequentialNonce(a, i) ==
    IF i = 0 THEN NonceVia([host EXCEPT !.overlay = OverlayNew], a)
    ELSE IF receipts[i].success /\ request.transactions[receipts[i].tx_index + 1].sender = a
         THEN SequentialNonce(a, i - 1) + 1
    ELSE SequentialNonce(a, i - 1)

\* C37: transactions take effect in request order and each one reads the
\* writes of all earlier ones in the same block: after a block of transfers,
\* every balance and nonce readable through the host equals the result of
\* applying the successful transfers one at a time, in request order, to
\* the committed state.
C37_SequentialEffect ==
    (Returned /\ outcome.response.status = "Ok" /\ OnlyTransfers)
        => \A a \in Accounts :
             /\ BalanceVia(host, a) = SequentialBalance(a, Len(receipts))
             /\ NonceVia(host, a) = SequentialNonce(a, Len(receipts))

\* C38: a transaction succeeds only if its nonce equals the sender's current
\* nonce (committed nonce plus the number of that sender's earlier successful
\* transactions in the block); any other nonce gives a failed receipt with
\* result_code 1 and no write, so the same signed transaction bytes never
\* succeed twice in one block.  A transaction refused before its nonce is
\* looked at (out of gas, signature) is allowed its own result code.
C38_NonceGate ==
    [][(ReceiptStep /\ decode_transaction(request.transactions[idx + 1]).ok)
         => /\ receipts'[Len(receipts')].success
                 => /\ request.transactions[idx + 1].nonce
                         = SequentialNonce(request.transactions[idx + 1].sender, Len(receipts))
                    /\ \A i \in 1..Len(receipts) :
                          receipts[i].success
                            => request.transactions[receipts[i].tx_index + 1]
                                 # request.transactions[idx + 1]
            /\ request.transactions[idx + 1].nonce
                 # SequentialNonce(request.transactions[idx + 1].sender, Len(receipts))
                 => /\ ~receipts'[Len(receipts')].success
                    /\ receipts'[Len(receipts')].result_code
                         \in {1, ERR_OUT_OF_GAS, ERR_SIG_INVALID, ERR_CRYPTO_FAILED}
                    /\ host'.overlay = host.overlay
                    /\ hs'.overlay = hs.overlay]_vars

\* The balance of account a that the host in use returns: the MockHost reads
\* its own overlay, the sandbox host the overlay of its HostState
BalanceRead(o, a) == BalanceVia([host EXCEPT !.overlay = o], a)

\* C39: a transfer whose amount exceeds the sender's balance, or whose
\* amount added to the recipient's balance exceeds 2^64 - 1, yields a failed
\* receipt and writes no balance; every balance written by a successful
\* transfer is the exact integer result (sender balance minus amount,
\* recipient balance plus amount), never a wrapped u64 value.
C39_ExactBalances ==
    [][(ReceiptStep /\ decode_transaction(request.transactions[idx + 1]).ok)
         => /\ (\/ request.transactions[idx + 1].amount
                     > BalanceRead(WriteOverlay, request.transactions[idx + 1].sender)
                \/ BalanceRead(WriteOverlay, request.transactions[idx + 1].to)
                     + request.transactions[idx + 1].amount > U64_MAX)
                 => /\ ~receipts'[Len(receipts')].success
                    /\ host'.overlay = host.overlay
                    /\ hs'.overlay = hs.overlay
            /\ receipts'[Len(receipts')].success
                 => /\ BalanceRead(WriteOverlay', request.transactions[idx + 1].to)
                         = BalanceRead(WriteOverlay, request.transactions[idx + 1].to)
                             + request.transactions[idx + 1].amount
                    /\ request.transactions[idx + 1].sender # request.transactions[idx + 1].to
                         => BalanceRead(WriteOverlay', request.transactions[idx + 1].sender)
                              = BalanceRead(WriteOverlay, request.transactions[idx + 1].sender)
                                  - request.transactions[idx + 1].amount]_vars

\* The first transaction, a transfer of 1 to an account that holds 2^64 - 1,
\* was refused with result_code 1
C39_Witness ==
    /\ pc \in {"loop", "done"}
    /\ Len(receipts) > 0
    /\ request.transactions[1] = Transfer(1, 0, 2, 1)
    /\ StoreGet(committed, balance_key(2)) = Some(u64_to_le_bytes(U64_MAX))
    /\ receipts[1] = Receipt(0, FALSE, receipts[1].gas_used, 1)

\* This step made a host allocation that reserved bytes
AllocStep ==
    /\ pc = "alias_guest"
    /\ idx' = idx + 1
    /\ outcome'.kind \in {"alloc_and_write", "linker_alloc"}
    /\ outcome'.code = ERR_OK
    /\ outcome'.val.len > 0

\* C40: after any sequence of host allocations (with the required memory
\* grows performed), every returned pointer is 8-byte aligned, successive
\* allocations are disjoint and strictly increasing (each starts where the
\* one before it ended), bump never exceeds capacity, and base + capacity
\* never exceeds the current memory size, so every host-to-guest write lands
\* inside guest memory.
C40_AllocatorInvariant ==
    [][/\ pc' = "alias_guest"
          => /\ hs'.host_alloc.bump <= hs'.host_alloc.capacity
             /\ hs'.host_alloc.base + hs'.host_alloc.capacity <= host'.memory.pages * PAGE_SIZE
       /\ (pc = "alias_guest" /\ outcome'.kind \in {"alloc_and_write", "linker_alloc"}
           /\ outcome'.code = ERR_OK)
          => outcome'.val.ptr % 8 = 0
       /\ AllocStep
          => /\ outcome'.val.ptr = hs.host_alloc.base + hs.host_alloc.bump
             /\ hs'.host_alloc.base + hs'.host_alloc.bump = outcome'.val.ptr + outcome'.val.len
             /\ hs'.host_alloc.base = hs.host_alloc.base
             /\ outcome'.val.ptr + outcome'.val.len <= host'.memory.pages * PAGE_SIZE]_vars

\* An allocation that needed a grow was made after an earlier allocation
C40_Witness ==
    /\ pc = "alias_guest"
    /\ outcome.kind \in {"alloc_and_write", "linker_alloc"}
    /\ outcome.code = ERR_OK
    /\ outcome.val.ptr > hs.host_alloc.base
    /\ hs.host_alloc.capacity > HOST_ALLOC_PAGES * PAGE_SIZE

====
